---- MODULE Spec2Model ----
(***************************************************************************)
(* Model of mathtest's PDF worksheet layout engine                          *)
(* (src/src/mathtest/output/pdf.py, PdfOutputGenerator.generate).           *)
(*                                                                         *)
(* One call of generate is a sequential program; the model walks through   *)
(* it phase by phase (validate, prepare, pack, redistribute, draw, answer  *)
(* key, output), one loop iteration per step, so that the plan before and  *)
(* after redistribution and the order of drawing and writing are states    *)
(* of the model.                                                           *)
(*                                                                         *)
(* Lengths are Python floats in the source.  The model computes with exact *)
(* rationals <<numerator, denominator>> (denominator > 0, lowest terms):   *)
(* the real-number value of every float expression, rounding left out.     *)
(***************************************************************************)
EXTENDS Integers, Sequences, FiniteSets, TLC

(***************************************************************************)
(* Bounds of the model.                                                    *)
(***************************************************************************)
\* longest problem sequence handed to generate
MaxProblems == 4
\* largest `columns` value among the enumerated configurations
MaxColumns == 2
\* generate calls made one after the other on the same arguments
MaxCalls == 2
\* entries of a JSON input
MaxEntries == 2
\* problems requested from one plugin
MaxQuantity == 2
\* --total-problems
MaxTotal == 3
\* --output-plugin selections on one command line
MaxOutputs == 2
MaxDividend == 3
MaxDivisor == 3

(***************************************************************************)
(* Exact rational arithmetic.                                              *)
(***************************************************************************)
Abs(n) == IF n < 0 THEN -n ELSE n

RECURSIVE GCD(_, _)
GCD(a, b) == IF b = 0 THEN a ELSE GCD(b, a % b)

Norm(n, d) ==
    LET g == GCD(Abs(n), Abs(d))
        s == IF d < 0 THEN -1 ELSE 1
    IN  <<(s * n) \div g, (s * d) \div g>>

R(n) == <<n, 1>>
Zero == R(0)

RAdd(a, b) ==
    LET l == (a[2] \div GCD(a[2], b[2])) * b[2]
    IN  Norm(a[1] * (l \div a[2]) + b[1] * (l \div b[2]), l)

RNeg(a) == <<-a[1], a[2]>>

RSub(a, b) == RAdd(a, RNeg(b))

RMul(a, b) ==
    LET g1 == GCD(Abs(a[1]), b[2])
        g2 == GCD(Abs(b[1]), a[2])
    IN  IF a[1] = 0 \/ b[1] = 0 THEN Zero
        ELSE Norm((a[1] \div g1) * (b[1] \div g2), (a[2] \div g2) * (b[2] \div g1))

\* a / b, b # 0
RDiv(a, b) == RMul(a, Norm(b[2], b[1]))

\* n1/d1 < n2/d2 for d1, d2 > 0, by comparing continued fractions (no products,
\* so a tolerance of 1e-9 compares without overflow)
RECURSIVE FracLess(_, _, _, _)
FracLess(n1, d1, n2, d2) ==
    LET q1 == n1 \div d1
        q2 == n2 \div d2
        r1 == n1 % d1
        r2 == n2 % d2
    IN  IF q1 # q2 THEN q1 < q2
        ELSE IF r2 = 0 THEN FALSE
        ELSE IF r1 = 0 THEN TRUE
        ELSE FracLess(d2, r2, d1, r1)

RLt(a, b) == FracLess(a[1], a[2], b[1], b[2])
RLe(a, b) == ~RLt(b, a)
RGt(a, b) == RLt(b, a)
RGe(a, b) == ~RLt(a, b)
RMax(a, b) == IF RLt(a, b) THEN b ELSE a
RAbs(a) == <<Abs(a[1]), a[2]>>

(***************************************************************************)
(* Module constants of pdf.py.                                             *)
(***************************************************************************)
MIN_HEADER_LABEL_FONT_SIZE == 10
HEADER_SPACING_MULTIPLIER == <<8, 5>>
FLOAT_TOLERANCE == <<1, 1000000000>>
POINTS_PER_INCH == 72
LETTER_PAGE_WIDTH == 612
LETTER_PAGE_HEIGHT == 792

(***************************************************************************)
(* PdfOutputParams: the validated configuration.                           *)
(***************************************************************************)
ParamKeys ==
    {"path", "title", "margin_inches", "problem_spacing_inches",
     "answers_on_new_page", "include_answers", "answer_title", "body_font",
     "include_student_header", "title_font_size", "answer_font_size",
     "columns", "column_spacing_inches"}

ParamDefaults ==
    [title |-> "Math Test",
     margin_inches |-> <<3, 4>>,
     problem_spacing_inches |-> <<7, 20>>,
     answers_on_new_page |-> TRUE,
     include_answers |-> FALSE,
     answer_title |-> "Answer Key",
     body_font |-> "Helvetica",
     include_student_header |-> TRUE,
     title_font_size |-> 20,
     answer_font_size |-> 12,
     columns |-> 4,
     column_spacing_inches |-> <<1, 4>>]

\* key.replace("-", "_") on the keys the CLI passes
NormalizeKey(key) ==
    CASE key = "margin-inches" -> "margin_inches"
      [] key = "problem-spacing-inches" -> "problem_spacing_inches"
      [] key = "answers-on-new-page" -> "answers_on_new_page"
      [] key = "include-answers" -> "include_answers"
      [] key = "answer-title" -> "answer_title"
      [] key = "body-font" -> "body_font"
      [] key = "include-student-header" -> "include_student_header"
      [] key = "title-font-size" -> "title_font_size"
      [] key = "answer-font-size" -> "answer_font_size"
      [] key = "column-spacing-inches" -> "column_spacing_inches"
      [] OTHER -> key

\* a later key overwrites an earlier one with the same normalized name; the
\* enumerated inputs never give a key in both spellings
_normalize_param_keys(p) ==
    [k \in {NormalizeKey(key) : key \in DOMAIN p} |->
        p[CHOOSE key \in DOMAIN p : NormalizeKey(key) = k]]

\* faulty variant of ParamsValid: the two spacings are not constrained
ParamsValidAnySpacing(n) ==
    /\ DOMAIN n \subseteq ParamKeys
    /\ "path" \in DOMAIN n
    /\ "margin_inches" \in DOMAIN n => RGt(n.margin_inches, Zero)
    /\ "title_font_size" \in DOMAIN n => n.title_font_size >= 8
    /\ "answer_font_size" \in DOMAIN n => n.answer_font_size >= 6
    /\ "columns" \in DOMAIN n => n.columns >= 1

\* the Field constraints (gt/ge) and extra="forbid"; path is required
ParamsValid(n) ==
    /\ DOMAIN n \subseteq ParamKeys
    /\ "path" \in DOMAIN n
    /\ "margin_inches" \in DOMAIN n => RGt(n.margin_inches, Zero)
    /\ "problem_spacing_inches" \in DOMAIN n => RGe(n.problem_spacing_inches, Zero)
    /\ "title_font_size" \in DOMAIN n => n.title_font_size >= 8
    /\ "answer_font_size" \in DOMAIN n => n.answer_font_size >= 6
    /\ "columns" \in DOMAIN n => n.columns >= 1
    /\ "column_spacing_inches" \in DOMAIN n => RGe(n.column_spacing_inches, Zero)

\* PdfOutputParams.model_validate on a valid mapping: defaults fill the gaps
model_validate(n) ==
    [k \in ParamKeys |-> IF k \in DOMAIN n THEN n[k] ELSE ParamDefaults[k]]

margin(config) == RMul(config.margin_inches, R(POINTS_PER_INCH))
problem_spacing(config) == RMul(config.problem_spacing_inches, R(POINTS_PER_INCH))
column_spacing(config) == RMul(config.column_spacing_inches, R(POINTS_PER_INCH))

content_width(config) ==
    RSub(R(LETTER_PAGE_WIDTH), RMul(R(2), margin(config)))

total_spacing(config) == RMul(column_spacing(config), R(config.columns - 1))

available_width(config) == RSub(content_width(config), total_spacing(config))

column_width(config) == RDiv(available_width(config), R(config.columns))

column_offsets(config) ==
    [index \in 0 .. config.columns - 1 |->
        RAdd(margin(config),
             RMul(R(index), RAdd(column_width(config), column_spacing(config))))]

_title_block_height(config) ==
    LET height == RMul(R(config.title_font_size), <<3, 2>>)
        label_font_size ==
            IF config.title_font_size > MIN_HEADER_LABEL_FONT_SIZE
            THEN config.title_font_size ELSE MIN_HEADER_LABEL_FONT_SIZE
    IN  IF ~config.include_student_header THEN height
        ELSE RAdd(height, RMul(R(label_font_size), HEADER_SPACING_MULTIPLIER))

\* faulty variant of _page_initial_row_top: the title block is not subtracted
_page_initial_row_top_untitled(config, page_height) ==
    RSub(R(page_height), margin(config))

_page_initial_row_top(config, page_height) ==
    LET top == RSub(R(page_height), margin(config))
    IN  IF config.title # "" THEN RSub(top, _title_block_height(config)) ELSE top

(***************************************************************************)
(* Problems.  A Problem is (svg, data).  The svg is given by the attributes *)
(* of its root element that generate reads: an attribute is <<>> when       *)
(* absent and <<n>> when present with the number n (a negative n stands for *)
(* a string the length pattern rejects); viewBox is <<>> or a tuple of      *)
(* numbers.  data is a mapping that may hold "answer"; an answer is tagged  *)
(* with its Python type.                                                    *)
(***************************************************************************)
IntAnswer(n) == [t |-> "int", v |-> n]
StrAnswer(s) == [t |-> "str", v |-> s]

\* str(answer)
Str(answer) == IF answer.t = "int" THEN ToString(answer.v) ELSE answer.v

Problem(w, h, vb, data) == [svg |-> [width |-> w, height |-> h, viewBox |-> vb], data |-> data]

\* 140 x 40, size given by the viewBox alone
ProblemS == Problem(<<>>, <<>>, <<0, 0, 140, 40>>, [answer |-> IntAnswer(7)])
\* 140 x 90, the element of the nine-problem scenario
ProblemA == Problem(<<140>>, <<90>>, <<0, 0, 140, 90>>, [answer |-> IntAnswer(12)])
\* 280 x 80: the aspect ratio of ProblemS at twice the width
ProblemC == Problem(<<280>>, <<80>>, <<>>, [answer |-> StrAnswer("3 R2")])
\* 140 x 380: in one column taller than the page, in two columns taller than
\* the space under a title block, in three columns neither
ProblemB == Problem(<<140>>, <<380>>, <<>>, [answer |-> StrAnswer("4:15")])
\* width 0
ProblemZeroWidth == Problem(<<0>>, <<90>>, <<>>, [answer |-> IntAnswer(1)])
\* no "answer" in data
ProblemNoAnswer == Problem(<<140>>, <<90>>, <<>>, [operands |-> <<1, 2>>])
\* neither width/height nor viewBox
ProblemNoSize == Problem(<<>>, <<>>, <<>>, [answer |-> IntAnswer(2)])

ValidProblems == {ProblemS, ProblemC, ProblemB}
InvalidProblems == {ProblemZeroWidth, ProblemNoAnswer, ProblemNoSize}

SeqsUpTo(S, n) == UNION {[1 .. k -> S] : k \in 0 .. n}

\* every sequence of valid problems, and every shorter one with one invalid
\* problem put in front of it or after it
ProblemSeqs ==
    LET good == SeqsUpTo(ValidProblems, MaxProblems)
        shorter == {s \in good : Len(s) < MaxProblems}
    IN  good \cup {<<bad>> \o s : s \in shorter, bad \in InvalidProblems}
             \cup {Append(s, bad) : s \in shorter, bad \in InvalidProblems}

\* _parse_svg_length raises ValueError
ParseFails(value, fallback) ==
    IF value = <<>> THEN fallback = <<>> ELSE value[1] < 0

_parse_svg_length(value, fallback) ==
    IF value = <<>> THEN R(fallback[1]) ELSE R(value[1])

\* _split_viewbox raises ValueError (only called on a non-empty viewBox)
SplitFails(value) == Len(value) # 4

\* _extract_geometry raises ValueError
GeometryFails(svg) ==
    IF svg.viewBox # <<>>
    THEN \/ SplitFails(svg.viewBox)
         \/ ParseFails(svg.width, <<svg.viewBox[3]>>)
         \/ ParseFails(svg.height, <<svg.viewBox[4]>>)
    ELSE ParseFails(svg.width, <<>>) \/ ParseFails(svg.height, <<>>)

_extract_geometry(svg) ==
    LET vb_width == IF svg.viewBox # <<>> THEN <<svg.viewBox[3]>> ELSE <<>>
        vb_height == IF svg.viewBox # <<>> THEN <<svg.viewBox[4]>> ELSE <<>>
    IN  [width |-> _parse_svg_length(svg.width, vb_width),
         height |-> _parse_svg_length(svg.height, vb_height)]

\* faulty variant of Scale: fits the longer side of the drawing to the column
ScaleLongerSide(cw, geometry) ==
    RDiv(cw, RMax(geometry.width, geometry.height))

\* faulty variant of Scale: shrink only, never enlarge
ScaleShrinkOnly(cw, geometry) ==
    IF RLt(cw, geometry.width) THEN RDiv(cw, geometry.width) ELSE R(1)

\* scale = column_width / geometry.width
Scale(cw, geometry) == RDiv(cw, geometry.width)

\* the _PreparedProblem of the problem at `index` (its identity in the input)
Prepare(index, geometry, cw) ==
    [problem |-> index,
     geometry |-> geometry,
     scale |-> Scale(cw, geometry),
     scaled_height |-> RMul(geometry.height, Scale(cw, geometry)),
     scaled_width |-> cw]

\* problem.data.get("answer") is not None
HasAnswer(data) == "answer" \in DOMAIN data

(***************************************************************************)
(* Row/page packer (the closures and the loop body of generate).  The      *)
(* packer state st is the record of generate's nonlocal variables.  A      *)
(* placement refers to its prepared problem by input position.             *)
(***************************************************************************)
_RowLayout(top, height, placements) ==
    [top |-> top, height |-> height, placements |-> placements]

_Placement(prepared, column_index, x_offset, top) ==
    [prepared |-> prepared, column_index |-> column_index,
     x_offset |-> x_offset, top |-> top]

\* the row a closure appends to current_page_rows
ClosedRow(st) == [st.current_row EXCEPT !.height = st.current_row_height]

\* faulty variant of advance_row: the next row starts right under the closed
\* one, problem_spacing left out
advance_row_no_spacing(st, config) ==
    LET nonempty == st.current_row.placements # <<>>
        top == IF nonempty
               THEN RSub(st.current_row_top, st.current_row_height)
               ELSE st.current_row_top
    IN  [st EXCEPT
            !.current_page_rows = IF nonempty THEN Append(@, ClosedRow(st)) ELSE @,
            !.current_row_top = top,
            !.current_row = _RowLayout(top, Zero, <<>>),
            !.current_row_height = Zero,
            !.current_column = 0]

advance_row(st, config) ==
    LET nonempty == st.current_row.placements # <<>>
        top == IF nonempty
               THEN RSub(st.current_row_top,
                         RAdd(st.current_row_height, problem_spacing(config)))
               ELSE st.current_row_top
    IN  [st EXCEPT
            !.current_page_rows = IF nonempty THEN Append(@, ClosedRow(st)) ELSE @,
            !.current_row_top = top,
            !.current_row = _RowLayout(top, Zero, <<>>),
            !.current_row_height = Zero,
            !.current_column = 0]

start_new_page(st, page_initial_top) ==
    LET rows == IF st.current_row.placements # <<>>
                THEN Append(st.current_page_rows, ClosedRow(st))
                ELSE st.current_page_rows
    IN  [st EXCEPT
            !.pages = IF rows # <<>> THEN Append(@, [rows |-> rows]) ELSE @,
            !.current_page_rows = <<>>,
            !.current_row_top = page_initial_top,
            !.current_row = _RowLayout(page_initial_top, Zero, <<>>),
            !.current_row_height = Zero,
            !.current_column = 0]

\* current_row_top - scaled_height < config.margin
CrossesMargin(st, scaled_height, config) ==
    RLt(RSub(st.current_row_top, scaled_height), margin(config))

\* faulty variant of WrapFullRow: wraps one column early
WrapFullRowEarly(st, config) ==
    IF st.current_column >= config.columns - 1 /\ st.current_column > 0
    THEN advance_row(st, config) ELSE st

\* line 353-354: wrap after the last column
WrapFullRow(st, config) ==
    IF st.current_column >= config.columns THEN advance_row(st, config) ELSE st

\* faulty variant of CloseShortRow: a part-filled row is closed whether or not
\* the element fits under it
CloseShortRowAlways(st, scaled_height, config) ==
    IF /\ RGt(st.current_row_height, Zero)
       /\ st.current_column > 0
    THEN advance_row(st, config) ELSE st

\* line 356-358: close a part-filled row the element does not fit under
CloseShortRow(st, scaled_height, config) ==
    IF /\ CrossesMargin(st, scaled_height, config)
       /\ RGt(st.current_row_height, Zero)
       /\ st.current_column > 0
    THEN advance_row(st, config) ELSE st

\* the state in which line 360 tests the margin
BeforePageBreak(st, scaled_height, config) ==
    CloseShortRow(WrapFullRow(st, config), scaled_height, config)

\* line 360-361: the state in which the element is placed, or found too tall
Positioned(st, scaled_height, config, page_initial_top) ==
    LET s == BeforePageBreak(st, scaled_height, config)
    IN  IF CrossesMargin(s, scaled_height, config)
        THEN start_new_page(s, page_initial_top) ELSE s

\* faulty variant of ExceedsPage: the check on the fresh page is left out
NeverExceedsPage(st, scaled_height, config, page_initial_top) == FALSE

\* line 362-364: "Problem geometry exceeds available page height"
ExceedsPage(st, scaled_height, config, page_initial_top) ==
    /\ CrossesMargin(BeforePageBreak(st, scaled_height, config), scaled_height, config)
    /\ CrossesMargin(Positioned(st, scaled_height, config, page_initial_top),
                     scaled_height, config)

\* line 366-370
XOffset(column, prepared, config) ==
    LET remaining_width == RSub(column_width(config), prepared.scaled_width)
        remaining == IF RLe(RAbs(remaining_width), FLOAT_TOLERANCE)
                     THEN Zero ELSE remaining_width
    IN  RAdd(column_offsets(config)[column], RMax(Zero, remaining))

\* faulty variant of Place: the row takes the height of its latest placement
PlaceLatestHeight(s, prepared, config) ==
    LET placement == _Placement(prepared.problem, s.current_column,
                                XOffset(s.current_column, prepared, config),
                                s.current_row_top)
        height == prepared.scaled_height
    IN  [s EXCEPT
            !.current_row = _RowLayout(@.top, height, Append(@.placements, placement)),
            !.current_row_height = height,
            !.current_column = @ + 1]

\* line 371-380 applied to the positioned state
Place(s, prepared, config) ==
    LET placement == _Placement(prepared.problem, s.current_column,
                                XOffset(s.current_column, prepared, config),
                                s.current_row_top)
        height == RMax(s.current_row_height, prepared.scaled_height)
    IN  [s EXCEPT
            !.current_row = _RowLayout(@.top, height, Append(@.placements, placement)),
            !.current_row_height = height,
            !.current_column = @ + 1]

\* faulty variant of Flush: the open row is not flushed into the last page
FlushWithoutOpenRow(st) ==
    IF st.current_page_rows # <<>>
    THEN Append(st.pages, [rows |-> st.current_page_rows]) ELSE st.pages

\* line 382-386: flush the open row and the open page
Flush(st) ==
    LET rows == IF st.current_row.placements # <<>>
                THEN Append(st.current_page_rows, ClosedRow(st))
                ELSE st.current_page_rows
    IN  IF rows # <<>> THEN Append(st.pages, [rows |-> rows]) ELSE st.pages

(***************************************************************************)
(* Vertical space redistribution (line 388-409), one page.                 *)
(***************************************************************************)
\* faulty variant of ShiftRow: the row moves, its placements stay
ShiftRowOnly(row, shift) ==
    [top |-> RSub(row.top, shift),
     height |-> row.height,
     placements |-> row.placements]

ShiftRow(row, shift) ==
    [top |-> RSub(row.top, shift),
     height |-> row.height,
     placements |-> [j \in DOMAIN row.placements |->
                        [row.placements[j] EXCEPT !.top = RSub(@, shift)]]]

\* faulty variant of CumulativeShift: the increment is assigned, not accumulated
CumulativeShiftOnce(k, gap_increment) == gap_increment

\* cumulative_shift after k additions of gap_increment
RECURSIVE CumulativeShift(_, _)
CumulativeShift(k, gap_increment) ==
    IF k = 0 THEN Zero ELSE RAdd(CumulativeShift(k - 1, gap_increment), gap_increment)

ExtraSpace(rows, config) ==
    LET last_row == rows[Len(rows)]
    IN  RSub(RSub(last_row.top, last_row.height), margin(config))

\* faulty variant of Redistribute: the extra space is divided by the number of
\* rows instead of the number of gaps
RedistributePerRow(page, config) ==
    LET rows == page.rows
        extra_space == ExtraSpace(rows, config)
    IN  IF rows = <<>> THEN page
        ELSE IF ~RGt(extra_space, FLOAT_TOLERANCE) THEN page
        ELSE IF Len(rows) = 1 THEN [rows |-> <<ShiftRow(rows[1], extra_space)>>]
        ELSE LET gap_increment == RDiv(extra_space, R(Len(rows)))
             IN  [rows |-> [k \in DOMAIN rows |->
                    IF k = 1 THEN rows[1]
                    ELSE ShiftRow(rows[k], CumulativeShift(k - 1, gap_increment))]]

Redistribute(page, config) ==
    LET rows == page.rows
        extra_space == ExtraSpace(rows, config)
    IN  IF rows = <<>> THEN page
        ELSE IF ~RGt(extra_space, FLOAT_TOLERANCE) THEN page
        ELSE IF Len(rows) = 1 THEN [rows |-> <<ShiftRow(rows[1], extra_space)>>]
        ELSE LET gap_increment == RDiv(extra_space, R(Len(rows) - 1))
             IN  [rows |-> [k \in DOMAIN rows |->
                    IF k = 1 THEN rows[1]
                    ELSE ShiftRow(rows[k], CumulativeShift(k - 1, gap_increment))]]

(***************************************************************************)
(* Drawing.  The document under construction is the sequence of calls made *)
(* on the FPDF object: add_page, the title block, one "problem" call per    *)
(* placement (its primitives are replayed at the placement's anchor and     *)
(* scale), the answer heading and the answer lines.                        *)
(***************************************************************************)
RECURSIVE PlacementsOf(_)
PlacementsOf(rows) ==
    IF rows = <<>> THEN <<>> ELSE rows[1].placements \o PlacementsOf(Tail(rows))

\* _draw_title: the title, then the Name:/Date: fields when configured
_draw_title(config, current_y) ==
    LET next_y == RSub(current_y, RMul(R(config.title_font_size), <<3, 2>>))
    IN  <<[op |-> "title", text |-> config.title, y |-> current_y]>> \o
        (IF config.include_student_header
         THEN <<[op |-> "field", text |-> "Name:", y |-> next_y],
                [op |-> "field", text |-> "Date:", y |-> next_y]>>
         ELSE <<>>)

\* _draw_problem for one placement
_draw_problem(placement, prepared) ==
    [op |-> "problem", problem |-> placement.prepared, top |-> placement.top,
     scale |-> prepared[placement.prepared].scale, x_offset |-> placement.x_offset]

\* line 412-428: one page of the plan
DrawnPage(page, prepared, config) ==
    LET placements == PlacementsOf(page.rows)
    IN  <<[op |-> "add_page"]>> \o
        (IF config.title # ""
         THEN _draw_title(config, RSub(R(LETTER_PAGE_HEIGHT), margin(config)))
         ELSE <<>>) \o
        [j \in DOMAIN placements |-> _draw_problem(placements[j], prepared)]

\* faulty variant of CursorAfterContent: the height of the last row is not
\* subtracted
CursorAtLastRowTop(plan, page_initial_top) ==
    IF plan # <<>> /\ plan[Len(plan)].rows # <<>>
    THEN LET rows == plan[Len(plan)].rows
         IN  rows[Len(rows)].top
    ELSE page_initial_top

\* line 430-434: the cursor handed to the answer key
CursorAfterContent(plan, page_initial_top) ==
    IF plan # <<>> /\ plan[Len(plan)].rows # <<>>
    THEN LET rows == plan[Len(plan)].rows
             last_row == rows[Len(rows)]
         IN  RSub(last_row.top, last_row.height)
    ELSE page_initial_top

\* faulty variant of AnswerKeyEnabled: include_answers is not consulted
AnswerKeyAlways(config, answers) == answers # <<>>

\* line 436
AnswerKeyEnabled(config, answers) == config.include_answers /\ answers # <<>>

\* faulty variant of AnswersNeedNewPage: the room left on the page is not consulted
AnswersOnNewPageOnly(config, y) == config.answers_on_new_page

\* line 527-529
AnswersNeedNewPage(config, y) ==
    \/ config.answers_on_new_page
    \/ RLt(y, RAdd(margin(config), R(config.answer_font_size * 2)))

line_height(config) == RMul(R(config.answer_font_size), <<7, 5>>)

\* line 540
LineNeedsNewPage(config, y) ==
    RLt(RSub(y, line_height(config)), margin(config))

\* faulty variant of AnswerLine: enumerate without start=1
AnswerLineZeroBased(index, answer) == ToString(index - 1) \o ". " \o answer

\* f"{index}. {answer}"
AnswerLine(index, answer) == ToString(index) \o ". " \o answer

PageTop(config) == RSub(R(LETTER_PAGE_HEIGHT), margin(config))

(***************************************************************************)
(* Inputs of one generate call.                                            *)
(***************************************************************************)
BaseParams == [path |-> "out/worksheet.pdf"]

ColumnChoices == {[columns |-> c] : c \in 1 .. MaxColumns}

\* default title with the student header, no title
TitleChoices == {<<>>, [title |-> ""]}

\* no answer key (the default), answer key on its own page, answer key in
\* large type allowed to share the last content page
AnswerChoices ==
    {<<>>,
     [include_answers |-> TRUE],
     "include-answers" :> TRUE @@ "answers-on-new-page" :> FALSE
        @@ "answer-font-size" :> 200}

\* the last two: a title without the student header, an answer key in the
\* default type allowed to share the last content page
ValidParams ==
    {BaseParams @@ c @@ t @@ a :
        c \in ColumnChoices, t \in TitleChoices, a \in AnswerChoices}
        \cup {BaseParams @@ [columns |-> 1] @@ "include-student-header" :> FALSE,
              BaseParams @@ [columns |-> 2, title |-> "", include_answers |-> TRUE,
                             answers_on_new_page |-> FALSE]}

MalformedParams ==
    {[title |-> "Quiz"],
     BaseParams @@ [margin_inches |-> Zero],
     BaseParams @@ [columns |-> 0],
     BaseParams @@ [problem_spacing_inches |-> <<-1, 4>>],
     BaseParams @@ [column_spacing_inches |-> <<-1, 4>>],
     BaseParams @@ [margin_inches |-> R(5)],
     BaseParams @@ [columns |-> 2, column_spacing_inches |-> R(8)],
     BaseParams @@ [colour |-> "red"]}

\* columns=4, margin=0.75in, nine 140 x 90 problems
ScenarioParams == BaseParams @@ [columns |-> 4] @@ "margin-inches" :> <<3, 4>>
ScenarioProblems == [i \in 1 .. 9 |-> ProblemA]

\* malformed parameters are tried with the sequences of at most one problem
Inputs ==
    (ValidParams \X ProblemSeqs)
        \cup (MalformedParams \X SeqsUpTo(ValidProblems \cup InvalidProblems, 1))
        \cup {<<ScenarioParams, ScenarioProblems>>}

(***************************************************************************)
(* State of one generate call.                                             *)
(***************************************************************************)
VARIABLES
    params,              \* argument: the raw parameter mapping
    problems,            \* argument: the problem sequence
    pc,                  \* position in generate
    error,               \* "" or the ValueError raised
    config,              \* PdfOutputParams, <<>> before validation
    answers,             \* collected answer strings
    prepared_problems,   \* list of _PreparedProblem
    pages,               \* closed pages, each [rows |-> ...]
    current_page_rows,   \* closed rows of the open page
    current_row_top,
    current_row,         \* the open row
    current_row_height,
    current_column,
    index,               \* loop position of the current phase
    current_y,           \* cursor of the answer key
    pdf,                 \* calls made on the FPDF object
    dir_made,            \* config.path.parent.mkdir was called
    saved,               \* documents written to config.path by pdf.output
    call_number,         \* number of the generate call in progress, from 1
    previous,            \* outcome of each earlier call
    request,             \* Coordinator.generate: the GenerationRequest
    co_pc,               \* position in Coordinator.generate
    co_error,            \* "" or the message of the CoordinatorError raised
    co_problems,         \* the local list `problems` of the coordinator
    serialized,          \* the local list `serialized`
    plugin_instances,    \* plugin name -> validated configuration of the instance
    generation_plan,     \* plugin names, one per problem to generate
    co_index,            \* loop position of the coordinator
    plugin_calls,        \* calls made on the registry and the plugins
    cli_args,            \* the parsed command line of `generate`
    cli_pc,              \* position in the generate command
    cli_error,           \* "" or the message of the typer.BadParameter raised
    allocations,         \* _build_plugin_requests: plugin name -> quantity
    remaining,           \* _build_plugin_requests: problems left to allocate
    plugin_requests,     \* the list _build_plugin_requests returned
    invoked_outputs,     \* names of the output plugins whose generate ran
    written_json,        \* payloads written to --json-output
    division_params,     \* DivisionPlugin: the raw parameters of the instance
    division_pc,         \* position in DivisionPlugin(...).generate_problem()
    division_sample,     \* the (dv, dr) the sampling loop drew last, <<>> before
    division_data        \* the data of the Problem returned, <<>> before

vars ==
    <<params, problems, pc, error, config, answers, prepared_problems, pages,
      current_page_rows, current_row_top, current_row, current_row_height,
      current_column, index, current_y, pdf, dir_made, saved, call_number, previous,
      request, co_pc, co_error, co_problems, serialized, plugin_instances,
      generation_plan, co_index, plugin_calls, cli_args, cli_pc, cli_error,
      allocations, remaining, plugin_requests, invoked_outputs, written_json,
      division_params, division_pc, division_sample, division_data>>

\* what no step of generate touches
coordinator_vars ==
    <<request, co_pc, co_error, co_problems, serialized, plugin_instances,
      generation_plan, co_index, plugin_calls>>

cli_vars ==
    <<cli_args, cli_pc, cli_error, allocations, remaining, plugin_requests,
      invoked_outputs, written_json>>

division_vars == <<division_params, division_pc, division_sample, division_data>>

outside_vars == <<call_number, previous, coordinator_vars, cli_vars, division_vars>>

\* no division plugin is in use
DivisionIdle ==
    /\ division_params = <<>>
    /\ division_pc = "idle"
    /\ division_sample = <<>>
    /\ division_data = <<>>

\* no Coordinator.generate call is in progress
CoordinatorIdle ==
    /\ request = <<>>
    /\ co_pc = "idle"
    /\ co_error = ""
    /\ co_problems = <<>>
    /\ serialized = <<>>
    /\ plugin_instances = <<>>
    /\ generation_plan = <<>>
    /\ co_index = 1
    /\ plugin_calls = <<>>

\* no generate command is in progress
CliIdle ==
    /\ cli_args = <<>>
    /\ cli_pc = "idle"
    /\ cli_error = ""
    /\ allocations = <<>>
    /\ remaining = 0
    /\ plugin_requests = <<>>
    /\ invoked_outputs = <<>>
    /\ written_json = <<>>

packer_vars ==
    <<pages, current_page_rows, current_row_top, current_row,
      current_row_height, current_column>>

PackerState ==
    [pages |-> pages, current_page_rows |-> current_page_rows,
     current_row_top |-> current_row_top, current_row |-> current_row,
     current_row_height |-> current_row_height, current_column |-> current_column]

SetPacker(s) ==
    /\ pages' = s.pages
    /\ current_page_rows' = s.current_page_rows
    /\ current_row_top' = s.current_row_top
    /\ current_row' = s.current_row
    /\ current_row_height' = s.current_row_height
    /\ current_column' = s.current_column

\* line 313-320
InitialPacker(top) ==
    [pages |-> <<>>, current_page_rows |-> <<>>, current_row_top |-> top,
     current_row |-> _RowLayout(top, Zero, <<>>), current_row_height |-> Zero,
     current_column |-> 0]

page_initial_top == _page_initial_row_top(config, LETTER_PAGE_HEIGHT)

Init ==
    /\ \E input \in Inputs :
          /\ params = input[1]
          /\ problems = input[2]
    /\ pc = "start"
    /\ error = ""
    /\ config = <<>>
    /\ answers = <<>>
    /\ prepared_problems = <<>>
    /\ pages = <<>>
    /\ current_page_rows = <<>>
    /\ current_row_top = Zero
    /\ current_row = _RowLayout(Zero, Zero, <<>>)
    /\ current_row_height = Zero
    /\ current_column = 0
    /\ index = 1
    /\ current_y = Zero
    /\ pdf = <<>>
    /\ dir_made = FALSE
    /\ saved = <<>>
    /\ call_number = 1
    /\ previous = <<>>
    /\ CoordinatorIdle
    /\ CliIdle
    /\ DivisionIdle

(***************************************************************************)
(* generate, step by step.                                                 *)
(***************************************************************************)
\* raise ValueError(kind): the call ends, nothing else changes
Raise(kind) ==
    /\ pc' = "failed"
    /\ error' = kind

\* faulty variant of Configure: an empty problem list is accepted, every loop
\* of generate runs zero times and an empty document is written
ConfigureAcceptingEmpty ==
    /\ pc = "start"
    /\ LET n == _normalize_param_keys(params)
       IN  IF ~ParamsValid(n)
           THEN /\ Raise("Invalid PDF output parameters")
                /\ UNCHANGED <<config, dir_made, current_y>>
           ELSE /\ config' = model_validate(n)
                /\ dir_made' = TRUE
                /\ IF RLe(content_width(config'), Zero)
                   THEN /\ Raise("Configured margins leave no horizontal space for content")
                        /\ UNCHANGED current_y
                   ELSE IF RLe(available_width(config'), Zero)
                   THEN /\ Raise("Configured column spacing leaves no room for problem columns")
                        /\ UNCHANGED current_y
                   ELSE /\ pc' = IF problems = <<>> THEN "output" ELSE "prepare"
                        /\ current_y' = IF problems = <<>>
                                        THEN _page_initial_row_top(config', LETTER_PAGE_HEIGHT)
                                        ELSE current_y
                        /\ UNCHANGED error
    /\ UNCHANGED <<params, problems, answers, prepared_problems, packer_vars,
                   index, pdf, saved>>
    /\ UNCHANGED outside_vars

\* line 253-283: validate the parameters, reject an empty problem list,
\* create the target directory, derive the column geometry
Configure ==
    /\ pc = "start"
    /\ LET n == _normalize_param_keys(params)
       IN  IF ~ParamsValid(n)
           THEN /\ Raise("Invalid PDF output parameters")
                /\ UNCHANGED <<config, dir_made>>
           ELSE /\ config' = model_validate(n)
                /\ IF problems = <<>>
                   THEN /\ Raise("At least one problem is required to build a worksheet")
                        /\ UNCHANGED dir_made
                   ELSE /\ dir_made' = TRUE
                        /\ IF RLe(content_width(config'), Zero)
                           THEN Raise("Configured margins leave no horizontal space for content")
                           ELSE IF RLe(available_width(config'), Zero)
                           THEN Raise("Configured column spacing leaves no room for problem columns")
                           ELSE /\ pc' = "prepare"
                                /\ UNCHANGED error
    /\ UNCHANGED <<params, problems, answers, prepared_problems, packer_vars,
                   index, current_y, pdf, saved>>
    /\ UNCHANGED outside_vars

\* faulty variant of PrepareProblem: the answer is required only when the
\* answer key is rendered
PrepareProblemLazyAnswer ==
    /\ pc = "prepare"
    /\ LET problem == problems[index]
           last == index = Len(problems)
       IN  IF GeometryFails(problem.svg)
           THEN /\ Raise("Unsupported SVG length")
                /\ UNCHANGED <<prepared_problems, answers, index, packer_vars>>
           ELSE LET geometry == _extract_geometry(problem.svg)
                IN  IF RLe(geometry.width, Zero)
                    THEN /\ Raise("Problem SVG width must be positive")
                         /\ UNCHANGED <<prepared_problems, answers, index, packer_vars>>
                    ELSE /\ prepared_problems' =
                                Append(prepared_problems,
                                       Prepare(index, geometry, column_width(config)))
                         /\ IF config.include_answers /\ ~HasAnswer(problem.data)
                            THEN /\ Raise("Problem data missing 'answer' field required for the answer key")
                                 /\ UNCHANGED <<answers, index, packer_vars>>
                            ELSE /\ answers' =
                                       Append(answers,
                                              IF HasAnswer(problem.data)
                                              THEN Str(problem.data.answer) ELSE "")
                                 /\ UNCHANGED error
                                 /\ IF last
                                    THEN /\ pc' = "pack"
                                         /\ index' = 1
                                         /\ SetPacker(InitialPacker(page_initial_top))
                                    ELSE /\ pc' = "prepare"
                                         /\ index' = index + 1
                                         /\ UNCHANGED packer_vars
    /\ UNCHANGED <<params, problems, config, current_y, pdf, dir_made, saved>>
    /\ UNCHANGED outside_vars

\* line 287-311, one iteration; after the last one line 313-320 set up the packer
PrepareProblem ==
    /\ pc = "prepare"
    /\ LET problem == problems[index]
           last == index = Len(problems)
       IN  IF GeometryFails(problem.svg)
           THEN /\ Raise("Unsupported SVG length")
                /\ UNCHANGED <<prepared_problems, answers, index, packer_vars>>
           ELSE LET geometry == _extract_geometry(problem.svg)
                IN  IF RLe(geometry.width, Zero)
                    THEN /\ Raise("Problem SVG width must be positive")
                         /\ UNCHANGED <<prepared_problems, answers, index, packer_vars>>
                    ELSE /\ prepared_problems' =
                                Append(prepared_problems,
                                       Prepare(index, geometry, column_width(config)))
                         /\ IF ~HasAnswer(problem.data)
                            THEN /\ Raise("Problem data missing 'answer' field required for the answer key")
                                 /\ UNCHANGED <<answers, index, packer_vars>>
                            ELSE /\ answers' = Append(answers, Str(problem.data.answer))
                                 /\ UNCHANGED error
                                 /\ IF last
                                    THEN /\ pc' = "pack"
                                         /\ index' = 1
                                         /\ SetPacker(InitialPacker(page_initial_top))
                                    ELSE /\ pc' = "prepare"
                                         /\ index' = index + 1
                                         /\ UNCHANGED packer_vars
    /\ UNCHANGED <<params, problems, config, current_y, pdf, dir_made, saved>>
    /\ UNCHANGED outside_vars

\* line 350-380, one iteration; after the last one line 382-386 flush the plan
PlaceProblem ==
    /\ pc = "pack"
    /\ LET prepared == prepared_problems[index]
           s == Positioned(PackerState, prepared.scaled_height, config, page_initial_top)
           placed == Place(s, prepared, config)
       IN  IF ExceedsPage(PackerState, prepared.scaled_height, config, page_initial_top)
           THEN /\ Raise("Problem geometry exceeds available page height")
                /\ SetPacker(s)
                /\ UNCHANGED index
           ELSE /\ UNCHANGED error
                /\ IF index = Len(prepared_problems)
                   THEN /\ SetPacker([placed EXCEPT !.pages = Flush(placed)])
                        /\ pc' = "redistribute"
                        /\ index' = 1
                   ELSE /\ SetPacker(placed)
                        /\ pc' = "pack"
                        /\ index' = index + 1
    /\ UNCHANGED <<params, problems, config, answers, prepared_problems,
                   current_y, pdf, dir_made, saved>>
    /\ UNCHANGED outside_vars

\* line 388-409, one page
RedistributePage ==
    /\ pc = "redistribute"
    /\ pages' = [pages EXCEPT ![index] = Redistribute(@, config)]
    /\ IF index = Len(pages)
       THEN pc' = "draw" /\ index' = 1
       ELSE pc' = "redistribute" /\ index' = index + 1
    /\ UNCHANGED <<params, problems, error, config, answers, prepared_problems,
                   current_page_rows, current_row_top, current_row,
                   current_row_height, current_column, current_y, pdf,
                   dir_made, saved>>
    /\ UNCHANGED outside_vars

\* line 411-428, one page; after the last one line 430-434 set the cursor
DrawPage ==
    /\ pc = "draw"
    /\ pdf' = pdf \o DrawnPage(pages[index], prepared_problems, config)
    /\ IF index = Len(pages)
       THEN /\ pc' = "answers"
            /\ index' = 1
            /\ current_y' = CursorAfterContent(pages, page_initial_top)
       ELSE /\ pc' = "draw"
            /\ index' = index + 1
            /\ UNCHANGED current_y
    /\ UNCHANGED <<params, problems, error, config, answers, prepared_problems,
                   packer_vars, dir_made, saved>>
    /\ UNCHANGED outside_vars

\* faulty variant of DrawAnswerHeading: the document is written before the
\* answer key is drawn, and again after it
DrawAnswerHeadingAfterOutput ==
    /\ pc = "answers"
    /\ saved' = Append(saved, pdf)
    /\ IF AnswerKeyEnabled(config, answers)
       THEN LET fresh == AnswersNeedNewPage(config, current_y)
                y == IF fresh THEN PageTop(config) ELSE current_y
            IN  /\ pdf' = pdf \o (IF fresh THEN <<[op |-> "add_page"]>> ELSE <<>>)
                              \o <<[op |-> "answer_title", text |-> config.answer_title,
                                    y |-> y]>>
                /\ current_y' = RSub(y, RMul(R(config.title_font_size), <<6, 5>>))
                /\ pc' = "answer_lines"
       ELSE /\ pc' = "output"
            /\ UNCHANGED <<pdf, current_y>>
    /\ UNCHANGED <<params, problems, error, config, answers, prepared_problems,
                   packer_vars, index, dir_made>>
    /\ UNCHANGED outside_vars

\* line 436-437 and _draw_answers line 527-538: the heading of the answer key
DrawAnswerHeading ==
    /\ pc = "answers"
    /\ IF AnswerKeyEnabled(config, answers)
       THEN LET fresh == AnswersNeedNewPage(config, current_y)
                y == IF fresh THEN PageTop(config) ELSE current_y
            IN  /\ pdf' = pdf \o (IF fresh THEN <<[op |-> "add_page"]>> ELSE <<>>)
                              \o <<[op |-> "answer_title", text |-> config.answer_title,
                                    y |-> y]>>
                /\ current_y' = RSub(y, RMul(R(config.title_font_size), <<6, 5>>))
                /\ pc' = "answer_lines"
       ELSE /\ pc' = "output"
            /\ UNCHANGED <<pdf, current_y>>
    /\ UNCHANGED <<params, problems, error, config, answers, prepared_problems,
                   packer_vars, index, dir_made, saved>>
    /\ UNCHANGED outside_vars

\* _draw_answers line 539-549, one answer
DrawAnswerLine ==
    /\ pc = "answer_lines"
    /\ LET fresh == LineNeedsNewPage(config, current_y)
           y == IF fresh THEN PageTop(config) ELSE current_y
       IN  /\ pdf' = pdf \o (IF fresh THEN <<[op |-> "add_page"]>> ELSE <<>>)
                         \o <<[op |-> "answer", text |-> AnswerLine(index, answers[index]),
                               y |-> y]>>
           /\ current_y' = RSub(y, line_height(config))
    /\ IF index = Len(answers)
       THEN pc' = "output" /\ index' = 1
       ELSE pc' = "answer_lines" /\ index' = index + 1
    /\ UNCHANGED <<params, problems, error, config, answers, prepared_problems,
                   packer_vars, dir_made, saved>>
    /\ UNCHANGED outside_vars

\* line 439: pdf.output(str(config.path))
Output ==
    /\ pc = "output"
    /\ saved' = Append(saved, pdf)
    /\ pc' = "done"
    /\ UNCHANGED <<params, problems, error, config, answers, prepared_problems,
                   packer_vars, index, current_y, pdf, dir_made>>
    /\ UNCHANGED outside_vars

Next ==
    \/ Configure
    \/ PrepareProblem
    \/ PlaceProblem
    \/ RedistributePage
    \/ DrawPage
    \/ DrawAnswerHeading
    \/ DrawAnswerLine
    \/ Output

Spec == Init /\ [][Next]_vars

(***************************************************************************)
(* Replay: generate is called again on the same problems and parameters.   *)
(* Every name generate binds is local to the call (line 253-439: config,   *)
(* pdf, prepared_problems, answers, the packer's variables), and the class *)
(* keeps no attribute; what outlives a call is the directory and the file. *)
(***************************************************************************)
Outcome ==
    [pc |-> pc, error |-> error, prepared_problems |-> prepared_problems,
     answers |-> answers, pages |-> pages, pdf |-> pdf]

\* faulty variant of CallAgain: prepared_problems is shared between the calls
CallAgainSharingPrepared ==
    /\ pc \in {"done", "failed"}
    /\ call_number < MaxCalls
    /\ call_number' = call_number + 1
    /\ previous' = Append(previous, Outcome)
    /\ pc' = "start"
    /\ error' = ""
    /\ config' = <<>>
    /\ answers' = <<>>
    /\ SetPacker(InitialPacker(Zero))
    /\ index' = 1
    /\ current_y' = Zero
    /\ pdf' = <<>>
    /\ UNCHANGED <<params, problems, prepared_problems, dir_made, saved>>
    /\ UNCHANGED <<coordinator_vars, cli_vars, division_vars>>

CallAgain ==
    /\ pc \in {"done", "failed"}
    /\ call_number < MaxCalls
    /\ call_number' = call_number + 1
    /\ previous' = Append(previous, Outcome)
    /\ pc' = "start"
    /\ error' = ""
    /\ config' = <<>>
    /\ answers' = <<>>
    /\ prepared_problems' = <<>>
    /\ SetPacker(InitialPacker(Zero))
    /\ index' = 1
    /\ current_y' = Zero
    /\ pdf' = <<>>
    /\ UNCHANGED <<params, problems, dir_made, saved>>
    /\ UNCHANGED <<coordinator_vars, cli_vars, division_vars>>

NextReplay ==
    \/ Configure
    \/ PrepareProblem
    \/ PlaceProblem
    \/ RedistributePage
    \/ DrawPage
    \/ DrawAnswerHeading
    \/ DrawAnswerLine
    \/ Output
    \/ CallAgain

SpecReplay == Init /\ [][NextReplay]_vars

(***************************************************************************)
(* Problem plugins, as the coordinator uses them.  An optional value is    *)
(* <<>> (None) or <<v>>.  The addition and the subtraction plugin differ   *)
(* in their operator and in subtraction's allow_negative_result;           *)
(* min_digit_chars, a rendering hint carried in addition's payload, is     *)
(* left out.                                                               *)
(***************************************************************************)
None == <<>>
Some(v) == <<v>>

\* PluginRegistry._plugins: the registered names
RegisteredPlugins == {"addition", "subtraction"}

\* get_parameters: name -> default
get_parameters(plugin_name) ==
    ("min-operand" :> Some(0) @@ "max-operand" :> Some(10) @@ "random-seed" :> None)
        @@ (IF plugin_name = "subtraction"
            THEN "allow-negative-result" :> Some(FALSE) ELSE <<>>)

\* the fields of _AdditionParams / _SubtractionParams
PluginFields(plugin_name) ==
    {"min_operand", "max_operand", "random_seed"}
        \cup (IF plugin_name = "subtraction" THEN {"allow_negative_result"} ELSE {})

PluginFieldDefaults ==
    [min_operand |-> Some(0), max_operand |-> Some(10), random_seed |-> None,
     allow_negative_result |-> Some(FALSE)]

\* the plugins' _normalize_param_keys
PluginKey(key) ==
    CASE key = "min-operand" -> "min_operand"
      [] key = "max-operand" -> "max_operand"
      [] key = "random-seed" -> "random_seed"
      [] key = "allow-negative-result" -> "allow_negative_result"
      [] OTHER -> key

NormalizePluginParams(p) ==
    [k \in {PluginKey(key) : key \in DOMAIN p} |->
        p[CHOOSE key \in DOMAIN p : PluginKey(key) = k]]

\* model_validate on a normalized mapping: defaults fill the gaps
PluginConfig(plugin_name, n) ==
    [k \in PluginFields(plugin_name) |->
        IF k \in DOMAIN n THEN n[k] ELSE PluginFieldDefaults[k]]

\* extra="forbid", only random_seed may be None, min_operand <= max_operand
PluginParamsValid(plugin_name, n) ==
    /\ DOMAIN n \subseteq PluginFields(plugin_name)
    /\ \A k \in PluginFields(plugin_name) \ {"random_seed"} :
          PluginConfig(plugin_name, n)[k] # None
    /\ PluginConfig(plugin_name, n).min_operand[1]
          <= PluginConfig(plugin_name, n).max_operand[1]

OperatorOf(plugin_name) == IF plugin_name = "addition" THEN "+" ELSE "-"

Computed(plugin_name, operands) ==
    IF plugin_name = "addition"
    THEN operands[1] + operands[2] ELSE operands[1] - operands[2]

\* _AdditionData / _SubtractionData: validation of a serialized payload
DataValid(plugin_name, data) ==
    /\ DOMAIN data \subseteq {"operands", "operator", "answer"}
    /\ "operands" \in DOMAIN data
    /\ Len(data.operands) = 2
    /\ "operator" \in DOMAIN data => data.operator = OperatorOf(plugin_name)
    /\ ("answer" \in DOMAIN data /\ data.answer # None) =>
          data.answer[1] = Computed(plugin_name, data.operands)

\* the problem a plugin builds for two operands: the drawing and the payload
PluginProblem(plugin_name, operands) ==
    [svg |-> [top |-> operands[1], bottom |-> operands[2],
              operator |-> OperatorOf(plugin_name)],
     data |-> [operands |-> operands, operator |-> OperatorOf(plugin_name),
               answer |-> Some(Computed(plugin_name, operands))]]

\* generate_from_data on a valid payload
generate_from_data(plugin_name, data) == PluginProblem(plugin_name, data.operands)

\* generate_problem: the problems an instance may draw
\* subtraction swaps the operands of a negative difference unless allowed
generate_problem(plugin_name, instance) ==
    {PluginProblem(plugin_name,
        IF plugin_name = "subtraction" /\ ~instance.allow_negative_result[1] /\ a < b
        THEN <<b, a>> ELSE <<a, b>>) :
        a \in instance.min_operand[1] .. instance.max_operand[1],
        b \in instance.min_operand[1] .. instance.max_operand[1]}

\* SerializedProblem.from_problem
from_problem(plugin_name, problem) == [type |-> plugin_name, data |-> problem.data]

(***************************************************************************)
(* Coordinator: parameter merging and the helpers of generate.             *)
(***************************************************************************)
ParameterSet(common, plugins) == [common |-> common, plugins |-> plugins]

\* dict.update: the keys of `values` overwrite those of `target`
Update(target, values) == values @@ target

\* faulty variant of _apply_parameter_set: the common section is applied after
\* the plugin's own section
_apply_parameter_set_common_last(target, parameter_set, plugin_name) ==
    LET with_plugin == IF plugin_name \in DOMAIN parameter_set.plugins
                       THEN Update(target, parameter_set.plugins[plugin_name])
                       ELSE target
    IN  Update(with_plugin, parameter_set.common)

_apply_parameter_set(target, parameter_set, plugin_name) ==
    LET with_common == Update(target, parameter_set.common)
    IN  IF plugin_name \in DOMAIN parameter_set.plugins
        THEN Update(with_common, parameter_set.plugins[plugin_name])
        ELSE with_common

\* for a registered plugin
_build_parameters(plugin_name, req, overrides) ==
    Update(_apply_parameter_set(
               _apply_parameter_set(get_parameters(plugin_name),
                                    req.yaml_parameters, plugin_name),
               req.cli_parameters, plugin_name),
           overrides)

_extract_random_seed(merged) ==
    IF "random_seed" \in DOMAIN merged /\ merged["random_seed"] # None
    THEN merged["random_seed"]
    ELSE IF "random-seed" \in DOMAIN merged /\ merged["random-seed"] # None
    THEN merged["random-seed"]
    ELSE None

\* the orders random.shuffle can leave the plan in
Shuffles(plan) ==
    {[i \in DOMAIN plan |-> plan[p[i]]] : p \in Permutations(DOMAIN plan)}

(***************************************************************************)
(* Inputs of one Coordinator.generate call.                                *)
(***************************************************************************)
NoJson == [none |-> TRUE, entries |-> <<>>]
Json(entries) == [none |-> FALSE, entries |-> entries]

SerializedProblem(problem_type, data) == [type |-> problem_type, data |-> data]

EntryAddition ==
    SerializedProblem("addition",
        [operands |-> <<2, 3>>, operator |-> "+", answer |-> Some(5)])
\* the answer is left to the plugin
EntrySubtraction == SerializedProblem("subtraction", [operands |-> <<2, 3>>])
\* 2 + 3 is not 6
EntryWrongAnswer ==
    SerializedProblem("addition", [operands |-> <<2, 3>>, answer |-> Some(6)])
\* no such plugin
EntryUnknown == SerializedProblem("fractions", [operands |-> <<1, 2>>])

Entries == {EntryAddition, EntrySubtraction, EntryWrongAnswer, EntryUnknown}

JsonInputs == {NoJson} \cup {Json(e) : e \in SeqsUpTo(Entries, MaxEntries)}

PluginRequest(name, quantity, overrides) ==
    [name |-> name, quantity |-> quantity, overrides |-> overrides]

\* one request per registered plugin (what the CLI builds), no request, a
\* request for an unknown plugin, a request whose overrides are invalid
PluginRequestLists ==
    {<<PluginRequest("addition", qa, <<>>), PluginRequest("subtraction", qs, <<>>)>> :
        qa \in 0 .. MaxQuantity, qs \in 0 .. MaxQuantity}
      \cup {<<>>,
            <<PluginRequest("addition", 1, "random-seed" :> Some(5)),
              PluginRequest("subtraction", 1, "max-operand" :> Some(3))>>,
            <<PluginRequest("fractions", 1, <<>>)>>,
            <<PluginRequest("addition", 1, "min-operand" :> Some(9) @@ "max-operand" :> Some(1))>>}

YamlChoices ==
    {ParameterSet("min-operand" :> Some(2) @@ "max-operand" :> Some(3), <<>>),
     ParameterSet("min-operand" :> Some(2) @@ "max-operand" :> Some(3)
                      @@ "random-seed" :> Some(6),
                  "addition" :> ("random-seed" :> Some(2) @@ "max-operand" :> Some(2))
                      @@ "subtraction" :> ("random-seed" :> Some(7)
                                             @@ "allow-negative-result" :> Some(TRUE)))}

CliChoices ==
    {ParameterSet(<<>>, <<>>),
     ParameterSet("random-seed" :> Some(1),
                  "subtraction" :> ("max-operand" :> Some(2))),
     ParameterSet("random-seed" :> Some(3) @@ "min-operand" :> Some(3),
                  "addition" :> ("random-seed" :> Some(4)))}

GenerationRequest(requests, yaml, cli, json) ==
    [plugin_requests |-> requests, yaml_parameters |-> yaml,
     cli_parameters |-> cli, json_input |-> json]

Requests ==
    {GenerationRequest(r, y, c, j) :
        r \in PluginRequestLists, y \in YamlChoices, c \in CliChoices, j \in JsonInputs}

\* no PdfOutputGenerator.generate call is in progress
GenerateIdle ==
    /\ params = <<>>
    /\ problems = <<>>
    /\ pc = "idle"
    /\ error = ""
    /\ config = <<>>
    /\ answers = <<>>
    /\ prepared_problems = <<>>
    /\ pages = <<>>
    /\ current_page_rows = <<>>
    /\ current_row_top = Zero
    /\ current_row = _RowLayout(Zero, Zero, <<>>)
    /\ current_row_height = Zero
    /\ current_column = 0
    /\ index = 1
    /\ current_y = Zero
    /\ pdf = <<>>
    /\ dir_made = FALSE
    /\ saved = <<>>
    /\ call_number = 1
    /\ previous = <<>>

generate_vars ==
    <<params, problems, pc, error, config, answers, prepared_problems, pages,
      current_page_rows, current_row_top, current_row, current_row_height,
      current_column, index, current_y, pdf, dir_made, saved, call_number,
      previous>>

InitCoordinator ==
    /\ GenerateIdle
    /\ request \in Requests
    /\ co_pc = "start"
    /\ co_error = ""
    /\ co_problems = <<>>
    /\ serialized = <<>>
    /\ plugin_instances = <<>>
    /\ generation_plan = <<>>
    /\ co_index = 1
    /\ plugin_calls = <<>>
    /\ CliIdle
    /\ DivisionIdle

(***************************************************************************)
(* Coordinator.generate, step by step.                                     *)
(***************************************************************************)
\* raise CoordinatorError(msg)
CoordinatorError(msg) ==
    /\ co_pc' = "failed"
    /\ co_error' = msg

\* faulty variant of JsonTakesPrecedence: an empty list counts as no input
JsonWhenNonEmpty(req) == ~req.json_input.none /\ req.json_input.entries # <<>>

\* line 181: request.json_input is not None
JsonTakesPrecedence(req) == ~req.json_input.none

\* line 181-183: the dispatch of generate; a loop over nothing ends the call
Dispatch ==
    /\ co_pc = "start"
    /\ IF JsonTakesPrecedence(request)
       THEN co_pc' = IF request.json_input.entries = <<>> THEN "done" ELSE "from_json"
       ELSE co_pc' = IF request.plugin_requests = <<>> THEN "done" ELSE "from_plugins"
    /\ UNCHANGED <<request, co_error, co_problems, serialized, plugin_instances,
                   generation_plan, co_index, plugin_calls>>
    /\ UNCHANGED <<generate_vars, cli_vars, division_vars>>

\* _generate_from_json line 190-206, one entry
RecreateEntry ==
    /\ co_pc = "from_json"
    /\ LET entries == request.json_input.entries
           entry == entries[co_index]
       IN  IF entry.type \notin RegisteredPlugins
           THEN /\ CoordinatorError("Unknown plugin '" \o entry.type \o "' in JSON input")
                /\ UNCHANGED <<co_problems, serialized, co_index, plugin_calls>>
           ELSE /\ plugin_calls' =
                      Append(plugin_calls, [op |-> "generate_from_data", name |-> entry.type])
                /\ IF ~DataValid(entry.type, entry.data)
                   THEN /\ CoordinatorError("Plugin '" \o entry.type \o "' failed to recreate a problem")
                        /\ UNCHANGED <<co_problems, serialized, co_index>>
                   ELSE LET problem == generate_from_data(entry.type, entry.data)
                        IN  /\ co_problems' = Append(co_problems, problem)
                            /\ serialized' =
                                  Append(serialized, from_problem(entry.type, problem))
                            /\ co_index' = IF co_index = Len(entries) THEN 1 ELSE co_index + 1
                            /\ co_pc' = IF co_index = Len(entries) THEN "done" ELSE "from_json"
                            /\ UNCHANGED co_error
    /\ UNCHANGED <<request, plugin_instances, generation_plan>>
    /\ UNCHANGED <<generate_vars, cli_vars, division_vars>>

\* after the last plugin request (line 244-254): nothing to generate ends
\* the call, otherwise the plan is shuffled
AfterRequests(plan) == IF plan = <<>> THEN "done" ELSE "shuffle"

\* _generate_from_plugins line 220-242, one plugin request
InstantiatePlugin ==
    /\ co_pc = "from_plugins"
    /\ LET plugin_request == request.plugin_requests[co_index]
           name == plugin_request.name
           last == co_index = Len(request.plugin_requests)
           merged == _build_parameters(name, request, plugin_request.overrides)
           normalized == NormalizePluginParams(merged)
       IN  IF plugin_request.quantity <= 0
           THEN /\ co_pc' = IF last THEN AfterRequests(generation_plan) ELSE "from_plugins"
                /\ co_index' = IF last THEN 1 ELSE co_index + 1
                /\ UNCHANGED <<co_error, plugin_instances, generation_plan, plugin_calls>>
           ELSE IF name \notin RegisteredPlugins
           THEN /\ CoordinatorError("Unknown plugin '" \o name \o "' in generation plan")
                /\ UNCHANGED <<co_index, plugin_instances, generation_plan, plugin_calls>>
           ELSE /\ plugin_calls' =
                      Append(plugin_calls, [op |-> "create", name |-> name, params |-> merged])
                /\ IF ~PluginParamsValid(name, normalized)
                   THEN /\ CoordinatorError("Failed to instantiate plugin '" \o name \o "'")
                        /\ UNCHANGED <<co_index, plugin_instances, generation_plan>>
                   ELSE /\ plugin_instances' =
                              (name :> PluginConfig(name, normalized)) @@ plugin_instances
                        /\ generation_plan' =
                              generation_plan \o [i \in 1 .. plugin_request.quantity |-> name]
                        /\ co_pc' = IF last THEN "shuffle" ELSE "from_plugins"
                        /\ co_index' = IF last THEN 1 ELSE co_index + 1
                        /\ UNCHANGED co_error
    /\ UNCHANGED <<request, co_problems, serialized>>
    /\ UNCHANGED <<generate_vars, cli_vars, division_vars>>

\* line 247-254: random.shuffle, seeded from the plugins' seeds or not; the
\* seed selects one of the orders
ShufflePlan ==
    /\ co_pc = "shuffle"
    /\ generation_plan' \in Shuffles(generation_plan)
    /\ co_pc' = "generate"
    /\ UNCHANGED <<request, co_error, co_problems, serialized, plugin_instances,
                   co_index, plugin_calls>>
    /\ UNCHANGED <<generate_vars, cli_vars, division_vars>>

\* line 256-266, one problem of the plan
GenerateProblem ==
    /\ co_pc = "generate"
    /\ LET plugin_name == generation_plan[co_index]
           last == co_index = Len(generation_plan)
       IN  /\ plugin_calls' =
                 Append(plugin_calls, [op |-> "generate_problem", name |-> plugin_name])
           /\ \E problem \in generate_problem(plugin_name, plugin_instances[plugin_name]) :
                 /\ co_problems' = Append(co_problems, problem)
                 /\ serialized' = Append(serialized, from_problem(plugin_name, problem))
           /\ co_pc' = IF last THEN "done" ELSE "generate"
           /\ co_index' = IF last THEN 1 ELSE co_index + 1
    /\ UNCHANGED <<request, co_error, plugin_instances, generation_plan>>
    /\ UNCHANGED <<generate_vars, cli_vars, division_vars>>

NextCoordinator ==
    \/ Dispatch
    \/ RecreateEntry
    \/ InstantiatePlugin
    \/ ShufflePlan
    \/ GenerateProblem

SpecCoordinator == InitCoordinator /\ [][NextCoordinator]_vars

(***************************************************************************)
(* The generate command of the CLI (main.py).  option_values maps the      *)
(* storage key of every flag and option given on the command line to its   *)
(* value: TRUE for a plugin flag, <<v>> for an option.                     *)
(***************************************************************************)
\* _PLUGIN_PARAMETERS: the registered plugins in registry.names() order
PluginOrder == <<"addition", "subtraction">>

\* the output registry: two standard plugins and two JSON plugins
RegisteredOutputs == {"traditional-pdf", "recording", "json", "json-lines"}

\* "json" in name.lower(), on the names that occur
_is_json_output(name) == name \in {"json", "json-lines"}

_option_storage_key(plugin_name, parameter_name) ==
    plugin_name \o "_" \o PluginKey(parameter_name)

\* the options of one plugin that were given
PluginOverrides(option_values, plugin_name) ==
    LET given == {d \in DOMAIN get_parameters(plugin_name) :
                     /\ _option_storage_key(plugin_name, d) \in DOMAIN option_values
                     /\ option_values[_option_storage_key(plugin_name, d)] # None}
    IN  [d \in given |-> option_values[_option_storage_key(plugin_name, d)]]

_build_cli_parameter_set(option_values) ==
    ParameterSet(<<>>,
        [name \in {n \in RegisteredPlugins : DOMAIN PluginOverrides(option_values, n) # {}}
            |-> PluginOverrides(option_values, name)])

\* the plugins whose flag is set, in _PLUGIN_PARAMETERS order
SelectedPlugins(option_values) ==
    SelectSeq(PluginOrder,
              LAMBDA name : name \in DOMAIN option_values /\ option_values[name] = TRUE)

Range(seq) == {seq[i] : i \in DOMAIN seq}

Min(a, b) == IF a <= b THEN a ELSE b

\* faulty variant of InitialAllocations: every selected plugin gets a first
\* problem, also when the total is smaller than their number
InitialAllocationsToAll(selected, shuffled, total) ==
    [name \in Range(selected) |-> 1]

\* line 310-319: one problem for each of the first plugins of the shuffle
InitialAllocations(selected, shuffled, total) ==
    [name \in Range(selected) |->
        IF \E i \in 1 .. Min(total, Len(selected)) : shuffled[i] = name THEN 1 ELSE 0]

\* line 326-331: one request per registered plugin
BuiltRequests(allocated) ==
    [i \in DOMAIN PluginOrder |->
        PluginRequest(PluginOrder[i],
                      IF PluginOrder[i] \in DOMAIN allocated
                      THEN allocated[PluginOrder[i]] ELSE 0,
                      <<>>)]

\* faulty variant of Rejection: several standard output plugins are let through
RejectionAllowingStandardOutputs(args) ==
    LET selected_outputs == args.output_plugin
        json_outputs == SelectSeq(selected_outputs, LAMBDA n : _is_json_output(n))
    IN  IF args.json_input.given /\ ~args.json_input.valid
        THEN "JSON input is not valid JSON"
        ELSE IF ~args.json_input.given /\ SelectedPlugins(args.option_values) = <<>>
        THEN "Select at least one plugin flag or provide --json-input."
        ELSE IF \E i \in DOMAIN selected_outputs : selected_outputs[i] \notin RegisteredOutputs
        THEN "Unknown output plugin(s)"
        ELSE IF Len(selected_outputs) # Cardinality(Range(selected_outputs))
        THEN "Duplicate --output-plugin selections are not allowed."
        ELSE IF Len(json_outputs) > 1
        THEN "Only one JSON output plugin may be selected at a time."
        ELSE IF selected_outputs = <<>> /\ ~args.json_output
        THEN "Select at least one --output-plugin or provide --json-output."
        ELSE ""

\* the first check of line 602-655 that fails, "" when none does
Rejection(args) ==
    LET selected_outputs == args.output_plugin
        standard_outputs == SelectSeq(selected_outputs, LAMBDA n : ~_is_json_output(n))
        json_outputs == SelectSeq(selected_outputs, LAMBDA n : _is_json_output(n))
    IN  IF args.json_input.given /\ ~args.json_input.valid
        THEN "JSON input is not valid JSON"
        ELSE IF ~args.json_input.given /\ SelectedPlugins(args.option_values) = <<>>
        THEN "Select at least one plugin flag or provide --json-input."
        ELSE IF \E i \in DOMAIN selected_outputs : selected_outputs[i] \notin RegisteredOutputs
        THEN "Unknown output plugin(s)"
        ELSE IF Len(selected_outputs) # Cardinality(Range(selected_outputs))
        THEN "Duplicate --output-plugin selections are not allowed."
        ELSE IF Len(standard_outputs) > 1
        THEN "Only one standard output plugin may be selected at a time."
        ELSE IF Len(json_outputs) > 1
        THEN "Only one JSON output plugin may be selected at a time."
        ELSE IF selected_outputs = <<>> /\ ~args.json_output
        THEN "Select at least one --output-plugin or provide --json-output."
        ELSE ""

\* _OUTPUT_REGISTRY.create: the PDF plugin needs its path
OutputCreatable(name, option_values) ==
    name = "traditional-pdf" => "output_traditional_pdf_path" \in DOMAIN option_values

\* plugin.generate(result.problems): the PDF plugin refuses an empty worksheet
OutputFails(name, result_problems) == name = "traditional-pdf" /\ result_problems = <<>>

(***************************************************************************)
(* Inputs of one generate command.                                         *)
(***************************************************************************)
\* every plugin draws its operands from 2 .. 2
OperandOptions ==
    "addition_min_operand" :> Some(2) @@ "addition_max_operand" :> Some(2)
        @@ "subtraction_min_operand" :> Some(2) @@ "subtraction_max_operand" :> Some(2)

PluginFlagChoices ==
    {<<>>, "addition" :> TRUE, "subtraction" :> TRUE,
     "addition" :> TRUE @@ "subtraction" :> TRUE}

PdfPathChoices == {<<>>, "output_traditional_pdf_path" :> Some("out/worksheet.pdf")}

NoJsonFile == [given |-> FALSE, valid |-> TRUE, entries |-> <<>>]
JsonFile(entries) == [given |-> TRUE, valid |-> TRUE, entries |-> entries]
BrokenJsonFile == [given |-> TRUE, valid |-> FALSE, entries |-> <<>>]

JsonFileChoices ==
    {NoJsonFile, BrokenJsonFile, JsonFile(<<>>),
     JsonFile(<<EntryAddition, EntrySubtraction>>), JsonFile(<<EntryUnknown>>)}

OutputNames == RegisteredOutputs \cup {"missing-output"}

CliArgs(option_values, total, json_input, json_output, output_plugin) ==
    [option_values |-> option_values, total_problems |-> total,
     json_input |-> json_input, json_output |-> json_output,
     output_plugin |-> output_plugin]

\* every output selection on a command line that asks addition for problems,
\* and every way of asking for problems with three output selections
CommandLines ==
    {CliArgs(OperandOptions @@ ("addition" :> TRUE) @@ path, total, NoJsonFile, out, sel) :
        path \in PdfPathChoices, total \in {1, MaxTotal}, out \in BOOLEAN,
        sel \in SeqsUpTo(OutputNames, MaxOutputs)}
      \cup
    {CliArgs(OperandOptions @@ flags @@ ("output_traditional_pdf_path" :> Some("out/worksheet.pdf")),
             total, json, sel = <<>>, sel) :
        flags \in PluginFlagChoices, total \in 1 .. MaxTotal, json \in JsonFileChoices,
        sel \in {<<>>, <<"traditional-pdf">>, <<"json", "json-lines">>}}

InitCli ==
    /\ GenerateIdle
    /\ CoordinatorIdle
    /\ DivisionIdle
    /\ cli_args \in CommandLines
    /\ cli_pc = "start"
    /\ cli_error = ""
    /\ allocations = <<>>
    /\ remaining = 0
    /\ plugin_requests = <<>>
    /\ invoked_outputs = <<>>
    /\ written_json = <<>>

(***************************************************************************)
(* generate, step by step.                                                 *)
(***************************************************************************)
\* raise typer.BadParameter(msg)
BadParameter(msg) ==
    /\ cli_pc' = "rejected"
    /\ cli_error' = msg

\* _build_plugin_requests line 304-319: the selection, the shuffle and the
\* first problem of each plugin
AllocateInitial ==
    /\ cli_pc = "start"
    /\ LET selected == SelectedPlugins(cli_args.option_values)
           total == IF selected # <<>> THEN cli_args.total_problems ELSE 0
       IN  IF selected # <<>> /\ total > 0
           THEN \E shuffled \in Shuffles(selected) :
                   /\ allocations' = InitialAllocations(selected, shuffled, total)
                   /\ remaining' = total - Min(total, Len(selected))
           ELSE /\ allocations' = [name \in Range(selected) |-> 0]
                /\ remaining' = total
    /\ cli_pc' = "allocate"
    /\ UNCHANGED <<cli_args, cli_error, plugin_requests, invoked_outputs, written_json>>
    /\ UNCHANGED <<generate_vars, coordinator_vars, division_vars>>

\* line 321-324, one turn of the loop: rng.choice(selected_plugins)
AllocateExtra ==
    /\ cli_pc = "allocate"
    /\ remaining > 0
    /\ \E name \in Range(SelectedPlugins(cli_args.option_values)) :
          allocations' = [allocations EXCEPT ![name] = @ + 1]
    /\ remaining' = remaining - 1
    /\ UNCHANGED <<cli_args, cli_pc, cli_error, plugin_requests, invoked_outputs,
                   written_json>>
    /\ UNCHANGED <<generate_vars, coordinator_vars, division_vars>>

\* line 326-331 and generate line 602-665: the requests are built, the input
\* file is read, the selections are checked and the coordinator is called
Validate ==
    /\ cli_pc = "allocate"
    /\ remaining <= 0
    /\ plugin_requests' = BuiltRequests(allocations)
    /\ IF Rejection(cli_args) # ""
       THEN /\ BadParameter(Rejection(cli_args))
            /\ UNCHANGED coordinator_vars
       ELSE /\ cli_pc' = "coordinate"
            /\ UNCHANGED cli_error
            /\ request' =
                  GenerationRequest(plugin_requests', ParameterSet(<<>>, <<>>),
                                    _build_cli_parameter_set(cli_args.option_values),
                                    IF cli_args.json_input.given
                                    THEN Json(cli_args.json_input.entries) ELSE NoJson)
            /\ co_pc' = "start"
            /\ UNCHANGED <<co_error, co_problems, serialized, plugin_instances,
                           generation_plan, co_index, plugin_calls>>
    /\ UNCHANGED <<cli_args, allocations, remaining, invoked_outputs, written_json>>
    /\ UNCHANGED <<generate_vars, division_vars>>

\* a CoordinatorError is not caught by generate
CoordinatorFailed ==
    /\ cli_pc = "coordinate"
    /\ co_pc = "failed"
    /\ cli_pc' = "crashed"
    /\ cli_error' = co_error
    /\ UNCHANGED <<cli_args, allocations, remaining, plugin_requests, invoked_outputs,
                   written_json>>
    /\ UNCHANGED <<generate_vars, coordinator_vars, division_vars>>

\* line 667-680: the selected output plugins are instantiated
CreateOutputs ==
    /\ cli_pc = "coordinate"
    /\ co_pc = "done"
    /\ IF \E i \in DOMAIN cli_args.output_plugin :
             ~OutputCreatable(cli_args.output_plugin[i], cli_args.option_values)
       THEN BadParameter("Failed to instantiate output plugin")
       ELSE /\ cli_pc' = "outputs"
            /\ UNCHANGED cli_error
    /\ UNCHANGED <<cli_args, allocations, remaining, plugin_requests, invoked_outputs,
                   written_json>>
    /\ UNCHANGED <<generate_vars, coordinator_vars, division_vars>>

\* line 682-683, one output plugin
InvokeOutput ==
    /\ cli_pc = "outputs"
    /\ Len(invoked_outputs) < Len(cli_args.output_plugin)
    /\ LET name == cli_args.output_plugin[Len(invoked_outputs) + 1]
       IN  /\ invoked_outputs' = Append(invoked_outputs, name)
           /\ IF OutputFails(name, co_problems)
              THEN /\ cli_pc' = "crashed"
                   /\ cli_error' = "At least one problem is required to build a worksheet"
              ELSE UNCHANGED <<cli_pc, cli_error>>
    /\ UNCHANGED <<cli_args, allocations, remaining, plugin_requests, written_json>>
    /\ UNCHANGED <<generate_vars, coordinator_vars, division_vars>>

\* line 685-691: the JSON export and the summary
Finish ==
    /\ cli_pc = "outputs"
    /\ Len(invoked_outputs) = Len(cli_args.output_plugin)
    /\ written_json' = IF cli_args.json_output
                       THEN Append(written_json, serialized) ELSE written_json
    /\ cli_pc' = "done"
    /\ UNCHANGED <<cli_args, cli_error, allocations, remaining, plugin_requests,
                   invoked_outputs>>
    /\ UNCHANGED <<generate_vars, coordinator_vars, division_vars>>

NextCli ==
    \/ AllocateInitial
    \/ AllocateExtra
    \/ Validate
    \/ Dispatch
    \/ RecreateEntry
    \/ InstantiatePlugin
    \/ ShufflePlan
    \/ GenerateProblem
    \/ CoordinatorFailed
    \/ CreateOutputs
    \/ InvokeOutput
    \/ Finish

SpecCli == InitCli /\ [][NextCli]_vars

(***************************************************************************)
(* The division plugin: construction and generate_problem.                 *)
(***************************************************************************)
_DivisionParams(min_dividend, max_dividend, min_divisor, max_divisor, allow_remainders) ==
    [min_dividend |-> min_dividend, max_dividend |-> max_dividend,
     min_divisor |-> min_divisor, max_divisor |-> max_divisor,
     allow_remainders |-> allow_remainders]

\* _DivisionParams.validate_bounds
validate_bounds(c) ==
    /\ c.min_dividend <= c.max_dividend
    /\ c.min_divisor <= c.max_divisor
    /\ c.min_divisor > 0

DivisionParamChoices ==
    {_DivisionParams(a, b, c, d, r) :
        a \in 0 .. MaxDividend, b \in 0 .. MaxDividend,
        c \in 0 .. MaxDivisor, d \in 0 .. MaxDivisor, r \in BOOLEAN}

\* str(quotient) if remainder == 0 else f"{quotient} r {remainder}"
DivisionAnswer(quotient, remainder) ==
    IF remainder = 0 THEN ToString(quotient)
    ELSE ToString(quotient) \o " r " \o ToString(remainder)

\* the data of the Problem generate_problem returns for the sample (dv, dr):
\* the entries computed from the sample
DivisionData(dv, dr) ==
    [dividend |-> dv, divisor |-> dr,
     quotient |-> dv \div dr, remainder |-> dv % dr,
     answer |-> DivisionAnswer(dv \div dr, dv % dr)]

\* the sampling loop turns again: not allow_remainders and rem != 0
Resample(c, dv, dr) == ~c.allow_remainders /\ dv % dr # 0

InitDivision ==
    /\ GenerateIdle
    /\ call_number = 1
    /\ previous = <<>>
    /\ CoordinatorIdle
    /\ CliIdle
    /\ division_params \in DivisionParamChoices
    /\ division_pc = "start"
    /\ division_sample = <<>>
    /\ division_data = <<>>

\* DivisionPlugin.__init__: model_validate, ValueError on failure
DivisionCreate ==
    /\ division_pc = "start"
    /\ division_pc' = IF validate_bounds(division_params) THEN "sampling" ELSE "invalid"
    /\ UNCHANGED <<division_params, division_sample, division_data>>
    /\ UNCHANGED <<generate_vars, call_number, previous, coordinator_vars, cli_vars>>

\* one turn of the loop of _sample_valid_division that ends in `continue`
DivisionSampleAgain ==
    /\ division_pc = "sampling"
    /\ \E dv \in division_params.min_dividend .. division_params.max_dividend,
          dr \in division_params.min_divisor .. division_params.max_divisor :
          /\ Resample(division_params, dv, dr)
          /\ division_sample' = <<dv, dr>>
    /\ UNCHANGED <<division_params, division_pc, division_data>>
    /\ UNCHANGED <<generate_vars, call_number, previous, coordinator_vars, cli_vars>>

\* the turn of the loop that returns, and the rest of generate_problem
DivisionReturn ==
    /\ division_pc = "sampling"
    /\ \E dv \in division_params.min_dividend .. division_params.max_dividend,
          dr \in division_params.min_divisor .. division_params.max_divisor :
          /\ ~Resample(division_params, dv, dr)
          /\ division_sample' = <<dv, dr>>
          /\ division_data' = DivisionData(dv, dr)
    /\ division_pc' = "returned"
    /\ UNCHANGED division_params
    /\ UNCHANGED <<generate_vars, call_number, previous, coordinator_vars, cli_vars>>

NextDivision ==
    \/ DivisionCreate
    \/ DivisionSampleAgain
    \/ DivisionReturn

\* the constructor and the loop keep running; a pair that randint can draw
\* at every turn of the loop is drawn at some turn
SpecDivision ==
    /\ InitDivision
    /\ [][NextDivision]_vars
    /\ WF_vars(DivisionCreate)
    /\ WF_vars(DivisionReturn)

(***************************************************************************)
(* Vocabulary of the properties.                                           *)
(***************************************************************************)
\* the plan is complete (line 386 has run)
Finished == pc \in {"redistribute", "draw", "answers", "answer_lines", "output", "done"}

\* every page has been redistributed (line 409 has run for the last page)
Redistributed == pc \in {"draw", "answers", "answer_lines", "output", "done"}

RECURSIVE PlanPlacements(_)
PlanPlacements(plan) ==
    IF plan = <<>> THEN <<>>
    ELSE PlacementsOf(plan[1].rows) \o PlanPlacements(Tail(plan))

\* the pages as they stand: while packing, the closed pages and the open page
\* with its open row
PlanSoFar ==
    IF pc = "pack"
    THEN LET open == IF current_row.placements # <<>>
                     THEN Append(current_page_rows, current_row)
                     ELSE current_page_rows
         IN  IF open # <<>> THEN Append(pages, [rows |-> open]) ELSE pages
    ELSE pages

ScaledHeight(placement) == prepared_problems[placement.prepared].scaled_height
Bottom(placement) == RSub(placement.top, ScaledHeight(placement))

\* the input positions of a sequence of placements
PreparedOf(placements) == [j \in DOMAIN placements |-> placements[j].prepared]

\* the "problem" calls of a document, in order
ProblemCalls(document) == SelectSeq(document, LAMBDA call : call.op = "problem")

(***************************************************************************)
(* C1  Placement preserves the input: on a successful call every input     *)
(* element is placed exactly once and the plan, read page by page, row by  *)
(* row, placement by placement, lists the elements in input order; while   *)
(* packing, the plan so far lists exactly the elements already consumed;   *)
(* the written document draws the problems in that same order.             *)
(***************************************************************************)
C1_InputOrderPreserved ==
    /\ pc = "pack" =>
          PreparedOf(PlanPlacements(PlanSoFar)) = [j \in 1 .. index - 1 |-> j]
    /\ Finished =>
          PreparedOf(PlanPlacements(pages)) = [j \in 1 .. Len(problems) |-> j]
    /\ pc = "done" =>
          [j \in 1 .. Len(ProblemCalls(saved[1])) |-> ProblemCalls(saved[1])[j].problem]
             = [j \in 1 .. Len(problems) |-> j]

\* a written worksheet of two pages whose first page wrapped to a second row
C1_Witness ==
    /\ pc = "done"
    /\ Len(pages) >= 2
    /\ Len(pages[1].rows) >= 2
    /\ config.columns >= 2

(***************************************************************************)
(* C2  Column coverage: when generation succeeds on at least `columns`     *)
(* elements, the first row of the first page holds exactly `columns`       *)
(* placements, the first `columns` elements of the input, in columns       *)
(* 0, 1, ..., columns-1, whatever their heights.                           *)
(***************************************************************************)
C2_FirstRowCoversColumns ==
    (Finished /\ Len(problems) >= config.columns) =>
        LET first == pages[1].rows[1].placements
        IN  /\ Len(first) = config.columns
            /\ \A j \in 1 .. Len(first) :
                    first[j].column_index = j - 1 /\ first[j].prepared = j

\* a first row of two columns holding elements of different heights, with
\* more elements after it
C2_Witness ==
    /\ Finished
    /\ config.columns = 2
    /\ Len(problems) > config.columns
    /\ ScaledHeight(pages[1].rows[1].placements[1])
          # ScaledHeight(pages[1].rows[1].placements[2])

(***************************************************************************)
(* C3  No overlap: for any two placements in the same column of the same   *)
(* page, the upper one's bottom lies at least problem_spacing above the    *)
(* lower one's top, before and after redistribution (stated for every pair *)
(* with upper.top >= lower.top, hence for consecutive ones).               *)
(***************************************************************************)
C3_NoOverlap ==
    (pc = "pack" \/ Finished) =>
        \A p \in DOMAIN PlanSoFar :
            LET placements == PlacementsOf(PlanSoFar[p].rows)
            IN  \A a, b \in DOMAIN placements :
                    (/\ a # b
                     /\ placements[a].column_index = placements[b].column_index
                     /\ RGe(placements[a].top, placements[b].top))
                    => RGe(RSub(Bottom(placements[a]), placements[b].top),
                           problem_spacing(config))

\* a redistributed page of two rows whose gap was widened
C3_Witness ==
    /\ Redistributed
    /\ \E p \in DOMAIN pages :
          /\ Len(pages[p].rows) >= 2
          /\ RGt(RSub(RSub(pages[p].rows[1].top, pages[p].rows[1].height),
                      pages[p].rows[2].top),
                 problem_spacing(config))

(***************************************************************************)
(* C4  Uniform width: every placement's rendered width (intrinsic width    *)
(* times scale) equals column_width, with no clamp on the scale; its       *)
(* x_offset is margin + column_index * (column_width + column_spacing), so *)
(* x_offset + width is the right edge of its column.                       *)
(***************************************************************************)
C4_UniformWidth ==
    (pc = "pack" \/ Finished) =>
        LET cw == RDiv(RSub(RSub(R(LETTER_PAGE_WIDTH), RMul(R(2), margin(config))),
                            RMul(column_spacing(config), R(config.columns - 1))),
                       R(config.columns))
            placements == PlanPlacements(PlanSoFar)
        IN  \A j \in DOMAIN placements :
                LET placement == placements[j]
                    prepared == prepared_problems[placement.prepared]
                    width == RMul(prepared.geometry.width, prepared.scale)
                    left == RAdd(margin(config),
                                 RMul(R(placement.column_index),
                                      RAdd(cw, column_spacing(config))))
                IN  /\ width = cw
                    /\ prepared.scaled_width = cw
                    /\ placement.x_offset = left
                    /\ RAdd(placement.x_offset, width) = RAdd(left, cw)

\* one element enlarged and one shrunk, the shrunk one beyond the first column
C4_Witness ==
    /\ Finished
    /\ \E a, b \in DOMAIN PlanPlacements(pages) :
          /\ RGt(prepared_problems[PlanPlacements(pages)[a].prepared].scale, R(1))
          /\ RLt(prepared_problems[PlanPlacements(pages)[b].prepared].scale, R(1))
          /\ PlanPlacements(pages)[b].column_index > 0

(***************************************************************************)
(* C5  Full-page usage.                                                    *)
(***************************************************************************)
Near(a, b) == RLe(RAbs(RSub(a, b)), FLOAT_TOLERANCE)

TopmostTop(page) ==
    LET tops == {PlacementsOf(page.rows)[j].top : j \in DOMAIN PlacementsOf(page.rows)}
    IN  CHOOSE t \in tops : \A u \in tops : RGe(t, u)

BottommostBottom(page) ==
    LET bottoms == {Bottom(PlacementsOf(page.rows)[j]) : j \in DOMAIN PlacementsOf(page.rows)}
    IN  CHOOSE t \in bottoms : \A u \in bottoms : RLe(t, u)

Span(page) == RSub(TopmostTop(page), BottommostBottom(page))

\* page_height - 2*margin minus the title block height
UsableHeight ==
    RSub(RSub(R(LETTER_PAGE_HEIGHT), RMul(R(2), margin(config))),
         IF config.title # "" THEN _title_block_height(config) ELSE Zero)

\* C5 as stated: after redistribution every page with a row spans the whole
\* usable height
C5_Original_EveryPageSpansUsableHeight ==
    Redistributed =>
        \A p \in DOMAIN pages :
            pages[p].rows # <<>> => Near(Span(pages[p]), UsableHeight)

\* C5 (amended): after redistribution the bottommost placement's bottom is on
\* the bottom margin on every page; a page of two or more rows spans exactly
\* page_height - 2*margin minus the title block height; a page of a single
\* row spans only the height of that row, which was moved down to the margin.
C5_FullPageUsage ==
    Redistributed =>
        \A p \in DOMAIN pages :
            /\ pages[p].rows # <<>>
            /\ Near(BottommostBottom(pages[p]), margin(config))
            /\ Len(pages[p].rows) >= 2 => Near(Span(pages[p]), UsableHeight)
            /\ Len(pages[p].rows) = 1 => Span(pages[p]) = pages[p].rows[1].height

\* a titled worksheet with a page of three rows followed by a single-row page
C5_Witness ==
    /\ Redistributed
    /\ config.title # ""
    /\ Len(pages) >= 2
    /\ Len(pages[1].rows) >= 3
    /\ Len(pages[2].rows) = 1

(***************************************************************************)
(* C6  Scale consistency.                                                  *)
(***************************************************************************)
SameAspectRatio(g, h) == RMul(g.width, h.height) = RMul(h.width, g.height)

\* C6 as stated: two placements in the same column whose drawings have the
\* same aspect ratio have the same scale
C6_Original_SameRatioSameScale ==
    (pc = "pack" \/ Finished) =>
        \A a, b \in DOMAIN PlanPlacements(PlanSoFar) :
            LET pa == PlanPlacements(PlanSoFar)[a]
                pb == PlanPlacements(PlanSoFar)[b]
            IN  (/\ pa.column_index = pb.column_index
                 /\ SameAspectRatio(prepared_problems[pa.prepared].geometry,
                                    prepared_problems[pb.prepared].geometry))
                => prepared_problems[pa.prepared].scale
                      = prepared_problems[pb.prepared].scale

\* C6 (amended): two elements with the same intrinsic width receive the same
\* scale factor, whatever their heights and columns; two elements with the
\* same aspect ratio receive the same scaled height (their scales differ
\* exactly when their widths do).
C6_ScaleConsistency ==
    \A a, b \in DOMAIN prepared_problems :
        LET pa == prepared_problems[a]
            pb == prepared_problems[b]
        IN  /\ pa.geometry.width = pb.geometry.width <=> pa.scale = pb.scale
            /\ SameAspectRatio(pa.geometry, pb.geometry)
                  => pa.scaled_height = pb.scaled_height

\* placed in different columns: two elements of equal width and different
\* height, and two of equal aspect ratio and different width
C6_Witness ==
    /\ Finished
    /\ \E a, b \in DOMAIN PlanPlacements(pages) :
          LET pa == PlanPlacements(pages)[a]
              pb == PlanPlacements(pages)[b]
          IN  /\ pa.column_index # pb.column_index
              /\ prepared_problems[pa.prepared].geometry.width
                    = prepared_problems[pb.prepared].geometry.width
              /\ prepared_problems[pa.prepared].geometry.height
                    # prepared_problems[pb.prepared].geometry.height
    /\ \E a, b \in DOMAIN prepared_problems :
          /\ SameAspectRatio(prepared_problems[a].geometry, prepared_problems[b].geometry)
          /\ prepared_problems[a].geometry.width # prepared_problems[b].geometry.width

(***************************************************************************)
(* C7  An element whose scaled height exceeds page_height - 2*margin makes *)
(* generate fail with the too-tall error wherever it sits in the input     *)
(* (the elements being otherwise well formed, so that packing starts): the *)
(* packing loop never gets past it, nothing is drawn and the document is   *)
(* never written, whatever rows and pages were packed before it.           *)
(***************************************************************************)
TallerThanPage(prepared) ==
    RGt(RMul(prepared.geometry.height,
             RDiv(column_width(config), prepared.geometry.width)),
        RSub(R(LETTER_PAGE_HEIGHT), RMul(R(2), margin(config))))

C7_TooTallAborts ==
    (\E i \in DOMAIN prepared_problems : TallerThanPage(prepared_problems[i])) =>
        /\ saved = <<>>
        /\ pdf = <<>>
        /\ pc \in {"prepare", "pack", "failed"}
        /\ pc = "pack" =>
              \A i \in 1 .. index - 1 : ~TallerThanPage(prepared_problems[i])
        /\ (pc = "failed" /\ Len(answers) = Len(problems)) =>
              error = "Problem geometry exceeds available page height"

\* the too-tall element came third or later and a page had been packed
C7_Witness ==
    /\ pc = "failed"
    /\ error = "Problem geometry exceeds available page height"
    /\ index >= 3
    /\ TallerThanPage(prepared_problems[index])
    /\ pages # <<>>
    /\ saved = <<>>

(***************************************************************************)
(* C8  The scenario columns=4, margin=0.75in, nine 140 x 90 elements.      *)
(***************************************************************************)
Scenario ==
    /\ problems = ScenarioProblems
    /\ config = model_validate(_normalize_param_keys(ScenarioParams))

RowSizes(page) == [k \in DOMAIN page.rows |-> Len(page.rows[k].placements)]

\* C8 as stated: three full rows of 4 and a row of 1 on page 1
C8_Original_ThreeFullRows ==
    (Finished /\ Scenario) => RowSizes(pages[1]) = <<4, 4, 4, 1>>

\* C8 (amended): the nine elements make two full rows of 4 followed by one
\* row of 1, all on page 1.
C8_ScenarioRows ==
    (Finished /\ Scenario) => Len(pages) = 1 /\ RowSizes(pages[1]) = <<4, 4, 1>>

\* the scenario's worksheet has been written
C8_Witness == pc = "done" /\ Scenario /\ Len(saved) = 1

(***************************************************************************)
(* C9  The answer key is rendered if and only if include_answers is true,  *)
(* and include_answers defaults to false: with include_answers false no    *)
(* answer heading, answer line or answer page is ever emitted and none is  *)
(* in the written document; a written document holds the answer heading    *)
(* exactly when include_answers is true.                                   *)
(***************************************************************************)
\* the parameters have been validated
Configured == DOMAIN config # {}

AnswerCalls(document) ==
    SelectSeq(document, LAMBDA call : call.op \in {"answer_title", "answer"})

AddPageCalls(document) == SelectSeq(document, LAMBDA call : call.op = "add_page")

C9_AnswerKeyIffEnabled ==
    Configured =>
        /\ ~(\E key \in DOMAIN params : key \in {"include_answers", "include-answers"})
              => ~config.include_answers
        /\ ~config.include_answers =>
              /\ AnswerCalls(pdf) = <<>>
              /\ pc # "answer_lines"
              /\ Len(AddPageCalls(pdf)) <= Len(pages)
              /\ \A d \in DOMAIN saved : AnswerCalls(saved[d]) = <<>>
        /\ pc = "done" =>
              (config.include_answers <=>
                  \E j \in DOMAIN saved[1] : saved[1][j].op = "answer_title")

\* a worksheet of several problems written without an answer key
C9_Witness ==
    /\ pc = "done"
    /\ ~config.include_answers
    /\ Len(problems) >= 2
    /\ Len(saved) = 1
    /\ Len(saved[1]) > 0

(***************************************************************************)
(* C10  The enabled answer key holds exactly one line per input problem,   *)
(* in input order; line i (from 1) reads "i. <answer of problem i>", the   *)
(* numbering running on across page breaks; a new page is started before   *)
(* a line exactly when current_y - line_height < margin.                   *)
(***************************************************************************)
AnswerTexts(document) ==
    LET lines == SelectSeq(document, LAMBDA call : call.op = "answer")
    IN  [j \in DOMAIN lines |-> lines[j].text]

ExpectedLine(i) ==
    LET answer == problems[i].data.answer
    IN  ToString(i) \o ". " \o (IF answer.t = "int" THEN ToString(answer.v) ELSE answer.v)

C10_LinesSoFar ==
    /\ pc = "answer_lines" =>
          AnswerTexts(pdf) = [i \in 1 .. index - 1 |-> ExpectedLine(i)]
    /\ (pc \in {"output", "done"} /\ config.include_answers) =>
          AnswerTexts(pdf) = [i \in 1 .. Len(problems) |-> ExpectedLine(i)]
    /\ (pc = "done" /\ config.include_answers) =>
          AnswerTexts(saved[1]) = [i \in 1 .. Len(problems) |-> ExpectedLine(i)]

C10_LineStep ==
    pc = "answer_lines" =>
        LET crosses == RLt(RSub(current_y, RMul(R(config.answer_font_size), <<7, 5>>)),
                           RMul(config.margin_inches, R(POINTS_PER_INCH)))
            added == SubSeq(pdf', Len(pdf) + 1, Len(pdf'))
        IN  /\ SubSeq(pdf', 1, Len(pdf)) = pdf
            /\ Len(added) = (IF crosses THEN 2 ELSE 1)
            /\ crosses <=> added[1].op = "add_page"
            /\ added[Len(added)].op = "answer"
            /\ added[Len(added)].y =
                  (IF crosses
                   THEN RSub(R(LETTER_PAGE_HEIGHT), RMul(config.margin_inches, R(POINTS_PER_INCH)))
                   ELSE current_y)

C10_AnswerKeyLines == [](C10_LinesSoFar) /\ [][C10_LineStep]_vars

\* a written answer key of at least three lines that wrapped to a new page
\* between two lines
C10_Witness ==
    /\ pc = "done"
    /\ config.include_answers
    /\ Len(answers) >= 3
    /\ \E j \in DOMAIN saved[1] :
          /\ j > 1
          /\ saved[1][j].op = "add_page"
          /\ saved[1][j - 1].op = "answer"

(***************************************************************************)
(* C11  The enabled answer key starts on a new page when                   *)
(* answers_on_new_page is true or when the cursor left after the main      *)
(* content (the bottom of the last row of the last page) is below          *)
(* margin + 2*answer_font_size: the heading is then preceded by a page     *)
(* break and sits at the page top; otherwise no page is added and the      *)
(* heading sits at that cursor, below the last row.                        *)
(***************************************************************************)
\* position of the answer heading in a document, 0 when there is none
HeadingIndex(document) ==
    LET found == {j \in DOMAIN document : document[j].op = "answer_title"}
    IN  IF found = {} THEN 0 ELSE CHOOSE j \in found : TRUE

\* bottom of the last row of the last content page
ContentCursor ==
    LET rows == pages[Len(pages)].rows
    IN  RSub(rows[Len(rows)].top, rows[Len(rows)].height)

C11_AnswerKeyPlacement ==
    (pc \in {"answer_lines", "output", "done"} /\ config.include_answers) =>
        LET k == HeadingIndex(pdf)
            before == SubSeq(pdf, 1, k - 1)
            new_page ==
                \/ config.answers_on_new_page
                \/ RLt(ContentCursor,
                       RAdd(RMul(config.margin_inches, R(POINTS_PER_INCH)),
                            R(2 * config.answer_font_size)))
        IN  /\ k > 0
            /\ IF new_page
               THEN /\ pdf[k - 1].op = "add_page"
                    /\ Len(AddPageCalls(before)) = Len(pages) + 1
                    /\ pdf[k].y = RSub(R(LETTER_PAGE_HEIGHT),
                                       RMul(config.margin_inches, R(POINTS_PER_INCH)))
               ELSE /\ Len(AddPageCalls(before)) = Len(pages)
                    /\ pdf[k].y = ContentCursor

\* an answer key that had to leave the last content page although
\* answers_on_new_page is false
C11_Witness ==
    /\ pc = "done"
    /\ config.include_answers
    /\ ~config.answers_on_new_page
    /\ HeadingIndex(saved[1]) > 1
    /\ saved[1][HeadingIndex(saved[1]) - 1].op = "add_page"

\* the branch "continues on the last content page" is never taken: after
\* redistribution the last row of every page ends on the bottom margin
C11_CursorOnMargin ==
    pc \in {"answers", "answer_lines", "output", "done"} =>
        Near(ContentCursor, RMul(config.margin_inches, R(POINTS_PER_INCH)))

(***************************************************************************)
(* C12  generate called with an empty problem sequence fails with an error *)
(* and writes no document, whatever the configuration; with a valid        *)
(* configuration the error is the one that asks for at least one problem.  *)
(***************************************************************************)
C12_EmptyInputFails ==
    (problems = <<>> /\ pc # "start") =>
        /\ pc = "failed"
        /\ error # ""
        /\ Configured =>
              error = "At least one problem is required to build a worksheet"
        /\ pdf = <<>>
        /\ saved = <<>>

\* an empty call with a valid configuration that asks for the answer key
C12_Witness ==
    /\ problems = <<>>
    /\ pc = "failed"
    /\ Configured
    /\ config.include_answers
    /\ error = "At least one problem is required to build a worksheet"

(***************************************************************************)
(* C13  A malformed configuration (missing path, margin <= 0, columns < 1, *)
(* negative problem or column spacing, or margins / column spacing that    *)
(* leave content_width <= 0 or available_width <= 0) makes generate fail   *)
(* before any element is parsed, scaled or placed, before any page is      *)
(* drawn, and without writing the document.                                *)
(***************************************************************************)
\* the value the configuration takes for a key: given, or the default
Given(key) ==
    LET spelled == {k \in DOMAIN params : NormalizeKey(k) = key}
    IN  IF spelled = {} THEN ParamDefaults[key]
        ELSE params[CHOOSE k \in spelled : TRUE]

MalformedConfiguration ==
    \/ "path" \notin DOMAIN params
    \/ RLe(Given("margin_inches"), Zero)
    \/ Given("columns") < 1
    \/ RLt(Given("problem_spacing_inches"), Zero)
    \/ RLt(Given("column_spacing_inches"), Zero)
    \/ RLe(RSub(R(LETTER_PAGE_WIDTH),
                RMul(R(2 * POINTS_PER_INCH), Given("margin_inches"))), Zero)
    \/ RLe(RSub(RSub(R(LETTER_PAGE_WIDTH),
                     RMul(R(2 * POINTS_PER_INCH), Given("margin_inches"))),
                RMul(R((Given("columns") - 1) * POINTS_PER_INCH),
                     Given("column_spacing_inches"))), Zero)

C13_MalformedConfigurationFails ==
    (MalformedConfiguration /\ pc # "start") =>
        /\ pc = "failed"
        /\ error # ""
        /\ prepared_problems = <<>>
        /\ answers = <<>>
        /\ pages = <<>> /\ current_page_rows = <<>> /\ current_row.placements = <<>>
        /\ pdf = <<>>
        /\ saved = <<>>

\* a call with a problem whose column spacing leaves no room for the columns
C13_Witness ==
    /\ pc = "failed"
    /\ problems # <<>>
    /\ Configured
    /\ config.columns = 2
    /\ error = "Configured column spacing leaves no room for problem columns"

(***************************************************************************)
(* C14  If any element has intrinsic width <= 0 or lacks an `answer`       *)
(* value, generate fails before any element is placed and before any page  *)
(* is drawn; a missing answer is fatal even when include_answers is false. *)
(***************************************************************************)
NonPositiveWidth(problem) ==
    /\ ~GeometryFails(problem.svg)
    /\ RLe(_extract_geometry(problem.svg).width, Zero)

LacksAnswer(problem) == "answer" \notin DOMAIN problem.data

HasUnusableElement ==
    \E i \in DOMAIN problems : NonPositiveWidth(problems[i]) \/ LacksAnswer(problems[i])

C14_UnusableElementFails ==
    /\ (HasUnusableElement /\ pc \notin {"start", "prepare"}) =>
          /\ pc = "failed"
          /\ error # ""
          /\ pages = <<>> /\ current_page_rows = <<>> /\ current_row.placements = <<>>
          /\ pdf = <<>>
          /\ saved = <<>>
    /\ (pc = "failed" /\ error = "Problem SVG width must be positive") =>
          NonPositiveWidth(problems[index])
    /\ (pc = "failed"
            /\ error = "Problem data missing 'answer' field required for the answer key") =>
          LacksAnswer(problems[index])

\* the last of several elements lacks its answer and the answer key is off
C14_Witness ==
    /\ pc = "failed"
    /\ Configured
    /\ ~config.include_answers
    /\ Len(problems) >= 3
    /\ LacksAnswer(problems[Len(problems)])
    /\ Len(prepared_problems) = Len(problems)
    /\ error = "Problem data missing 'answer' field required for the answer key"

GivenEntries == request.json_input.entries

\* what the plugin named by an entry makes of the entry's operands
Recreated(entry) ==
    LET a == entry.data.operands[1]
        b == entry.data.operands[2]
        answer == IF entry.type = "addition" THEN a + b ELSE a - b
        operator == IF entry.type = "addition" THEN "+" ELSE "-"
    IN  [svg |-> [top |-> a, bottom |-> b, operator |-> operator],
         data |-> [operands |-> <<a, b>>, operator |-> operator, answer |-> <<answer>>]]

C16_JsonInputPrecedence ==
    ~request.json_input.none =>
        /\ plugin_instances = <<>>
        /\ generation_plan = <<>>
        /\ \A i \in DOMAIN plugin_calls : plugin_calls[i].op = "generate_from_data"
        /\ co_pc \notin {"from_plugins", "shuffle", "generate"}
        /\ co_pc = "done" =>
              /\ co_problems = [i \in DOMAIN GivenEntries |-> Recreated(GivenEntries[i])]
              /\ serialized =
                    [i \in DOMAIN GivenEntries |->
                        [type |-> GivenEntries[i].type, data |-> Recreated(GivenEntries[i]).data]]
        /\ (co_pc \notin {"start", "from_json"}
              /\ \E i \in DOMAIN GivenEntries : GivenEntries[i].type \notin {"addition", "subtraction"}) =>
              /\ co_pc = "failed"
              /\ co_error # ""

\* two entries of different plugins recreated while plugin requests were given
C16_Witness ==
    /\ co_pc = "done"
    /\ ~request.json_input.none
    /\ Len(co_problems) = 2
    /\ GivenEntries[1].type # GivenEntries[2].type
    /\ \E i \in DOMAIN request.plugin_requests : request.plugin_requests[i].quantity > 0

(***************************************************************************)
(* C17.  The quantities of the requests built from the plugin flags.       *)
(***************************************************************************)
\* the requests of _build_plugin_requests exist once the loop has ended
RequestsBuilt == plugin_requests # <<>>

QuantityOf(plugin_name) ==
    LET i == CHOOSE i \in DOMAIN plugin_requests : plugin_requests[i].name = plugin_name
    IN  plugin_requests[i].quantity

RECURSIVE TotalQuantity(_)
TotalQuantity(requests) ==
    IF requests = <<>> THEN 0
    ELSE Head(requests).quantity + TotalQuantity(Tail(requests))

Flagged == Range(SelectedPlugins(cli_args.option_values))

\* C17: whatever the shuffle and the random choices, the quantities of the built
\* requests sum to total_problems when a plugin is selected and to 0 when none
\* is, an unselected plugin gets 0, and every selected plugin gets at least 1
\* when total_problems is at least the number of selected plugins
C17_AllocationSums ==
    RequestsBuilt =>
        /\ \A name \in RegisteredPlugins :
              \E i \in DOMAIN plugin_requests : plugin_requests[i].name = name
        /\ TotalQuantity(plugin_requests) =
              (IF Flagged # {} THEN cli_args.total_problems ELSE 0)
        /\ \A name \in RegisteredPlugins \ Flagged : QuantityOf(name) = 0
        /\ cli_args.total_problems >= Cardinality(Flagged) =>
              \A name \in Flagged : QuantityOf(name) >= 1

\* two plugins share three problems, two of them for subtraction
C17_Witness ==
    /\ RequestsBuilt
    /\ Flagged = {"addition", "subtraction"}
    /\ cli_args.total_problems = 3
    /\ QuantityOf("subtraction") = 2
    /\ QuantityOf("addition") = 1

(***************************************************************************)
(* C18.  Output selections the generate command refuses.                   *)
(***************************************************************************)
NamesUnknownOutput(selection) ==
    \E i \in DOMAIN selection : selection[i] \notin RegisteredOutputs

RepeatsOutput(selection) ==
    \E i, j \in DOMAIN selection : i # j /\ selection[i] = selection[j]

StandardCount(selection) ==
    Cardinality({i \in DOMAIN selection : ~_is_json_output(selection[i])})

JsonCount(selection) ==
    Cardinality({i \in DOMAIN selection : _is_json_output(selection[i])})

RefusedSelection ==
    \/ NamesUnknownOutput(cli_args.output_plugin)
    \/ RepeatsOutput(cli_args.output_plugin)
    \/ StandardCount(cli_args.output_plugin) > 1
    \/ JsonCount(cli_args.output_plugin) > 1
    \/ cli_args.output_plugin = <<>> /\ ~cli_args.json_output

\* C18: a selection that names an unknown output plugin, repeats one, holds more
\* than one standard or more than one JSON plugin, or is empty without
\* --json-output is rejected, and the command then never calls the coordinator
\* or a plugin, generates no problem, invokes no output plugin and writes nothing
C18_RefusedSelectionGeneratesNothing ==
    RefusedSelection =>
        /\ co_pc = "idle"
        /\ plugin_calls = <<>>
        /\ co_problems = <<>>
        /\ invoked_outputs = <<>>
        /\ written_json = <<>>
        /\ cli_pc \in {"start", "allocate", "rejected"}
        /\ cli_pc = "rejected" => cli_error # ""

\* the PDF plugin and a second standard plugin selected together are rejected
C18_Witness ==
    /\ cli_args.output_plugin = <<"traditional-pdf", "recording">>
    /\ cli_pc = "rejected"
    /\ cli_error = "Only one standard output plugin may be selected at a time."
    /\ RequestsBuilt
    /\ invoked_outputs = <<>>

(***************************************************************************)
(* C19, C20.  What redistribution does to the rows of one page.            *)
(***************************************************************************)
\* the page the next redistribution step looks at, and what it finds there
RowsBefore == pages[index].rows
RowsAfter == pages'[index].rows
SpaceBefore == ExtraSpace(RowsBefore, config)

HasSpaceToSpread ==
    /\ pc = "redistribute"
    /\ RowsBefore # <<>>
    /\ RGt(SpaceBefore, FLOAT_TOLERANCE)

RowBottom(row) == RSub(row.top, row.height)

\* C19: a page of exactly one row whose bottom lies more than 1e-9 above the
\* margin has the top of that row and of each of its placements lowered by
\* exactly extra_space, and the row's bottom is then on the bottom margin
C19_SingleRowMovesToMargin ==
    [][(HasSpaceToSpread /\ Len(RowsBefore) = 1) =>
          /\ Len(RowsAfter) = 1
          /\ RowsAfter[1].top = RSub(RowsBefore[1].top, SpaceBefore)
          /\ RowsAfter[1].height = RowsBefore[1].height
          /\ DOMAIN RowsAfter[1].placements = DOMAIN RowsBefore[1].placements
          /\ \A j \in DOMAIN RowsBefore[1].placements :
                RowsAfter[1].placements[j].top
                   = RSub(RowsBefore[1].placements[j].top, SpaceBefore)
          /\ RowBottom(RowsAfter[1]) = margin(config)]_vars

\* a single-row page of two placements that was moved down from the top of
\* the page to the margin
C19_Witness ==
    /\ Redistributed
    /\ \E p \in DOMAIN pages :
          /\ Len(pages[p].rows) = 1
          /\ Len(pages[p].rows[1].placements) = 2
          /\ RLt(pages[p].rows[1].top, page_initial_top)
          /\ RowBottom(pages[p].rows[1]) = margin(config)

\* C20: on a page of n >= 2 rows with extra_space > 1e-9 the first row stays,
\* the k-th row (k = 0 for the first) is lowered by k * extra_space / (n - 1),
\* every two consecutive rows are then problem_spacing + extra_space / (n - 1)
\* apart, and the last row's bottom is on the margin
C20_RowsSpreadEvenly ==
    [][(HasSpaceToSpread /\ Len(RowsBefore) >= 2) =>
          LET n == Len(RowsBefore)
              share == RDiv(SpaceBefore, R(n - 1))
          IN  /\ Len(RowsAfter) = n
              /\ RowsAfter[1] = RowsBefore[1]
              /\ \A k \in 0 .. n - 1 :
                    /\ RowsAfter[k + 1].top
                          = RSub(RowsBefore[k + 1].top, RMul(R(k), share))
                    /\ RowsAfter[k + 1].height = RowsBefore[k + 1].height
              /\ \A k \in 1 .. n - 1 :
                    RSub(RowBottom(RowsAfter[k]), RowsAfter[k + 1].top)
                       = RAdd(problem_spacing(config), share)
              /\ RowBottom(RowsAfter[n]) = margin(config)]_vars

\* a page of three rows where the second row moved down and the third row
\* moved further, ending on the margin
C20_Witness ==
    /\ Redistributed
    /\ \E p \in DOMAIN pages :
          LET rows == pages[p].rows
          IN  /\ Len(rows) = 3
              /\ rows[1].top = page_initial_top
              /\ RGt(RSub(RowBottom(rows[1]), rows[2].top), problem_spacing(config))
              /\ RSub(RowBottom(rows[1]), rows[2].top)
                    = RSub(RowBottom(rows[2]), rows[3].top)
              /\ RowBottom(rows[3]) = margin(config)

(***************************************************************************)
(* C21.  Redistribution is a frame-preserving pass.                        *)
(***************************************************************************)
\* a placement with its top left out
WithoutTop(placement) ==
    [prepared |-> placement.prepared,
     column_index |-> placement.column_index,
     x_offset |-> placement.x_offset,
     scale |-> prepared_problems[placement.prepared].scale]

\* a row with every top left out
RowWithoutTops(row) ==
    [height |-> row.height,
     placements |-> [j \in DOMAIN row.placements |-> WithoutTop(row.placements[j])]]

PageWithoutTops(page) == [k \in DOMAIN page.rows |-> RowWithoutTops(page.rows[k])]

PlacementsOnRowTop(row) ==
    \A j \in DOMAIN row.placements : row.placements[j].top = row.top

\* C21: a redistribution step keeps the number of pages, the rows of each
\* page, the placements of each row in their order, every placement's
\* column_index, x_offset and scale and every row's height; only tops change,
\* and afterwards every placement's top is the top of its row
C21_RedistributionMovesTopsOnly ==
    [][pc = "redistribute" =>
          /\ prepared_problems' = prepared_problems
          /\ DOMAIN pages' = DOMAIN pages
          /\ \A p \in DOMAIN pages :
                /\ PageWithoutTops(pages'[p]) = PageWithoutTops(pages[p])
                /\ p # index => pages'[p] = pages[p]
          /\ \A k \in DOMAIN RowsAfter : PlacementsOnRowTop(RowsAfter[k])]_vars

\* a page of two rows of two placements each whose second row was lowered
C21_Witness ==
    /\ Redistributed
    /\ \E p \in DOMAIN pages :
          LET rows == pages[p].rows
          IN  /\ Len(rows) = 2
              /\ Len(rows[1].placements) = 2
              /\ Len(rows[2].placements) = 2
              /\ RGt(RSub(RowBottom(rows[1]), rows[2].top), problem_spacing(config))
              /\ PlacementsOnRowTop(rows[2])

(***************************************************************************)
(* C22.  The rows the packer has closed, before redistribution touches     *)
(* them.                                                                   *)
(***************************************************************************)
\* the sequences of closed rows, page by page, that redistribution has not
\* reached: while packing the closed pages and the closed rows of the open
\* page, afterwards the pages from the one under the loop on
UntouchedRows ==
    IF pc = "pack"
    THEN {pages[p].rows : p \in DOMAIN pages} \cup {current_page_rows}
    ELSE IF pc = "redistribute"
    THEN {pages[p].rows : p \in index .. Len(pages)}
    ELSE {}

TallestPlacement(row) ==
    LET heights == {ScaledHeight(row.placements[j]) : j \in DOMAIN row.placements}
    IN  CHOOSE h \in heights : \A g \in heights : RLe(g, h)

\* pages of two and of three rows are packed with placements of one height
C22_RowsBelowRows ==
    /\ pc = "redistribute"
    /\ \E rows \in UntouchedRows : Len(rows) = 3

\* C22: before redistribution every closed row is as high as its tallest
\* placement, a row below another on the same page starts problem_spacing
\* under the bottom of the row above, and the first row of every page starts
\* at page_initial_top
C22_ClosedRowGeometry ==
    \A rows \in UntouchedRows :
        /\ \A k \in DOMAIN rows :
              /\ rows[k].placements # <<>>
              /\ rows[k].height = TallestPlacement(rows[k])
        /\ \A k \in 1 .. Len(rows) - 1 :
              rows[k + 1].top =
                 RSub(RSub(rows[k].top, rows[k].height), problem_spacing(config))
        /\ rows # <<>> => rows[1].top = page_initial_top

\* packing has ended with two pages, the first of them one row that holds a
\* tall placement followed by a lower one
C22_Witness ==
    /\ pc = "redistribute"
    /\ index = 1
    /\ Len(pages) = 2
    /\ \E rows \in UntouchedRows :
          /\ rows = pages[1].rows
          /\ Len(rows[1].placements) = 2
          /\ RGt(ScaledHeight(rows[1].placements[1]), ScaledHeight(rows[1].placements[2]))

(***************************************************************************)
(* C23.  When a row is closed short of its columns.                        *)
(***************************************************************************)
\* the rows closed so far: those of the closed pages and of the open page
ClosedRowSet ==
    UNION {Range(pages[p].rows) : p \in DOMAIN pages} \cup Range(current_page_rows)

Holds(row, prepared_index) ==
    \E j \in DOMAIN row.placements : row.placements[j].prepared = prepared_index

\* the rows one turn of the packing loop closes short of their columns before
\* it places its element; the row that holds the element itself is closed
\* only by the flush at the end of the input
ClosedEarly ==
    {row \in ClosedRowSet' \ ClosedRowSet :
        Len(row.placements) < config.columns /\ ~Holds(row, index)}

\* the state in which the element at `index` is tested before a page break
Tried == BeforePageBreak(PackerState, prepared_problems[index].scaled_height, config)

DoesNotFit == CrossesMargin(Tried, prepared_problems[index].scaled_height, config)

\* C23 as stated: a row closed early holds a placement in a column other than
\* column 0; no empty row is closed; an element that does not fit is tested at
\* column 0 before the page break
C23_Original_EarlyCloseHoldsLaterColumn ==
    [][pc = "pack" =>
          /\ \A row \in ClosedEarly :
                \E j \in DOMAIN row.placements : row.placements[j].column_index # 0
          /\ \A row \in ClosedRowSet' : row.placements # <<>>
          /\ DoesNotFit => Tried.current_column = 0]_vars

\* C23 (amended): a row is closed early only when it already holds at least
\* one placement, so that the element would have gone to a column other than
\* column 0, and the element does not fit under that row's top; the row may
\* hold a placement in column 0 only.  No empty row is closed, and an element
\* that does not fit is tested at column 0 of an empty row before the page break
C23_EarlyClose ==
    [][pc = "pack" =>
          /\ \A row \in ClosedEarly :
                /\ row.placements # <<>>
                /\ current_column = Len(row.placements)
                /\ current_column > 0
                /\ row.placements = current_row.placements
                /\ RLt(RSub(row.top, prepared_problems[index].scaled_height),
                       margin(config))
          /\ \A row \in ClosedRowSet' : row.placements # <<>>
          /\ DoesNotFit =>
                /\ Tried.current_column = 0
                /\ Tried.current_row.placements = <<>>]_vars

\* two columns: the first page ends with a row of one placement, closed early
\* for an element that went to the second page
C23_Witness ==
    /\ pc = "redistribute"
    /\ index = 1
    /\ config.columns = 2
    /\ Len(pages) = 2
    /\ Len(pages[1].rows) = 2
    /\ Len(pages[1].rows[2].placements) = 1
    /\ pages[1].rows[2].placements[1].column_index = 0

(***************************************************************************)
(* C24.  The document is written once, last, and only on success.          *)
(***************************************************************************)
\* everything a successful call draws is in the document
DocumentComplete(document) ==
    /\ [j \in 1 .. Len(ProblemCalls(document)) |-> ProblemCalls(document)[j].problem]
          = [j \in 1 .. Len(problems) |-> j]
    /\ Len(AddPageCalls(document)) >= Len(pages)
    /\ \A p \in DOMAIN pages :
          Near(RowBottom(pages[p].rows[Len(pages[p].rows)]), margin(config))
    /\ AnswerKeyEnabled(config, answers) =>
          AnswerTexts(document) = [i \in DOMAIN answers |-> AnswerLine(i, answers[i])]

WrittenOnlyWhenDone ==
    /\ Len(saved) <= 1
    /\ saved # <<>> <=> pc = "done"
    /\ pc = "failed" => saved = <<>>
    /\ saved # <<>> => saved[1] = pdf /\ DocumentComplete(saved[1])

\* C24: the document is written exactly once per successful call, by the last
\* step of the call, after every element was placed, every page redistributed
\* and drawn and the enabled answer key drawn; a failing call never writes
C24_WrittenOnceAtTheEnd ==
    /\ []WrittenOnlyWhenDone
    /\ [][/\ pc # "done"
          /\ saved' # saved => (pc = "output" /\ pc' = "done" /\ saved' = <<pdf>>)]_vars

\* a written worksheet of two pages with its answer key
C24_Witness ==
    /\ pc = "done"
    /\ Len(saved) = 1
    /\ Len(pages) = 2
    /\ AnswerKeyEnabled(config, answers)
    /\ Len(AnswerTexts(saved[1])) = Len(problems)

\* a call that failed while packing, after a page had been closed, wrote nothing
C24_FailedCall ==
    /\ pc = "failed"
    /\ pages # <<>>
    /\ saved = <<>>

(***************************************************************************)
(* C25.  Precedence of the parameter sources.                              *)
(***************************************************************************)
SectionOf(parameter_set, plugin_name) ==
    IF plugin_name \in DOMAIN parameter_set.plugins
    THEN parameter_set.plugins[plugin_name] ELSE <<>>

OverridesFor(plugin_name) ==
    LET i == CHOOSE i \in DOMAIN request.plugin_requests :
                 request.plugin_requests[i].name = plugin_name
    IN  request.plugin_requests[i].overrides

\* the sources of a plugin's parameters, lowest precedence first
SourcesFor(plugin_name) ==
    <<get_parameters(plugin_name),
      request.yaml_parameters.common,
      SectionOf(request.yaml_parameters, plugin_name),
      request.cli_parameters.common,
      SectionOf(request.cli_parameters, plugin_name),
      OverridesFor(plugin_name)>>

Defining(sources, key) == {i \in DOMAIN sources : key \in DOMAIN sources[i]}

Highest(set) == CHOOSE i \in set : \A j \in set : j <= i

CreateCalls == {i \in DOMAIN plugin_calls : plugin_calls[i].op = "create"}

\* C25: the parameters a plugin is created with hold exactly the keys its
\* sources define, each with the value of the highest source defining it in
\* the order defaults < YAML common < YAML per-plugin < CLI common < CLI
\* per-plugin < request overrides; sections of other plugins contribute nothing
C25_MergePrecedence ==
    \A c \in CreateCalls :
        LET merged == plugin_calls[c].params
            sources == SourcesFor(plugin_calls[c].name)
        IN  /\ DOMAIN merged = UNION {DOMAIN sources[i] : i \in DOMAIN sources}
            /\ \A key \in DOMAIN merged :
                  merged[key] = sources[Highest(Defining(sources, key))][key]

\* subtraction is created from a request in which every source but the request
\* overrides defines the seed, and the YAML section of addition is not empty
C25_Witness ==
    \E c \in CreateCalls :
        /\ plugin_calls[c].name = "subtraction"
        /\ Defining(SourcesFor("subtraction"), "random-seed") = {1, 2, 3, 4}
        /\ Defining(SourcesFor("subtraction"), "max-operand") = {1, 2, 5, 6}
        /\ SectionOf(request.yaml_parameters, "addition") # <<>>
        /\ plugin_calls[c].params["random-seed"] = Some(1)
        /\ plugin_calls[c].params["max-operand"] = Some(3)

\* addition is created with the seed of its request overrides although all
\* other sources define one
C25_AllSources ==
    \E c \in CreateCalls :
        /\ plugin_calls[c].name = "addition"
        /\ Defining(SourcesFor("addition"), "random-seed") = 1 .. 6
        /\ plugin_calls[c].params["random-seed"] = Some(5)

(***************************************************************************)
(* C26.  An early close is always followed by a page break.                *)
(***************************************************************************)
\* in the plan so far every row but the last of its page is full
RowsAbovePageEndFull ==
    (pc = "pack" \/ Finished) =>
        \A p \in DOMAIN PlanSoFar :
            \A k \in 1 .. Len(PlanSoFar[p].rows) - 1 :
                Len(PlanSoFar[p].rows[k].placements) = config.columns

\* the element at `index` opens a page: it is alone in the first row of the
\* last page of the plan
OpensPage(plan) ==
    LET page == plan[Len(plan)]
    IN  /\ Len(page.rows) = 1
        /\ PreparedOf(page.rows[1].placements) = <<index>>
        /\ page.rows[1].placements[1].column_index = 0
        /\ page.rows[1].top = page_initial_top

\* C26: when a row is closed early for an element that does not fit under it,
\* the element does not fit on the lower row either and goes to a new page (or
\* is found too tall), so that in every plan each row other than the last row
\* of its page holds exactly `columns` placements
C26_EarlyCloseBreaksPage ==
    /\ []RowsAbovePageEndFull
    /\ [][(pc = "pack" /\ ClosedEarly # {}) =>
             /\ DoesNotFit
             /\ Len(pages') > Len(pages)
             /\ pc' # "failed" => OpensPage(PlanSoFar')]_vars

\* two columns: the first page ends with a row of one placement under a full
\* row, and the next element opened the second page
C26_Witness ==
    /\ Finished
    /\ config.columns = 2
    /\ Len(pages) = 2
    /\ Len(pages[1].rows) = 2
    /\ Len(pages[1].rows[1].placements) = 2
    /\ Len(pages[1].rows[2].placements) = 1
    /\ PreparedOf(pages[2].rows[1].placements) = <<4>>

(***************************************************************************)
(* C27.  Exactly the elements taller than the usable band are too tall.    *)
(***************************************************************************)
TooTallError == "Problem geometry exceeds available page height"

\* scaled height > page_height - 2*margin - title_block_height
ExceedsBand(prepared) == RGt(prepared.scaled_height, UsableHeight)

\* packing has begun: every problem was prepared
Packing ==
    \/ pc = "pack"
    \/ Finished
    \/ pc = "failed" /\ error = TooTallError

\* the rows and pages one turn of the packing loop closes before it places
\* its element
ClosedBeforePlacing == {row \in ClosedRowSet' \ ClosedRowSet : ~Holds(row, index)}

PagesBeforePlacing ==
    {p \in DOMAIN pages' \ DOMAIN pages :
        \A k \in DOMAIN pages'[p].rows : ~Holds(pages'[p].rows[k], index)}

TooTallExactly ==
    /\ Configured => RSub(page_initial_top, margin(config)) = UsableHeight
    /\ Packing =>
          /\ Len(prepared_problems) = Len(problems)
          /\ pc = "pack" =>
                \A i \in 1 .. index - 1 : ~ExceedsBand(prepared_problems[i])
          /\ pc = "failed" =>
                /\ ExceedsBand(prepared_problems[index])
                /\ \A i \in 1 .. index - 1 : ~ExceedsBand(prepared_problems[i])
          /\ Finished =>
                \A i \in DOMAIN prepared_problems : ~ExceedsBand(prepared_problems[i])

\* C27: the too-tall error is raised if and only if some element's scaled
\* height exceeds page_initial_top - margin = page_height - 2*margin -
\* title_block_height (0 for an empty title); an element within that bound is
\* placed after at most one row close and one page break
C27_TooTallIffExceedsBand ==
    /\ []TooTallExactly
    /\ [][pc = "pack" =>
             /\ Cardinality(ClosedBeforePlacing) <= 1
             /\ Cardinality(PagesBeforePlacing) <= 1
             /\ (pc' = "failed" <=> ExceedsBand(prepared_problems[index]))
             /\ pc' = "failed" => error' = TooTallError]_vars

\* an element that an untitled page would hold is too tall under the title
\* block, after a page had been packed
C27_Witness ==
    /\ pc = "failed"
    /\ error = TooTallError
    /\ config.title # ""
    /\ ~TallerThanPage(prepared_problems[index])
    /\ ExceedsBand(prepared_problems[index])
    /\ index >= 2

(***************************************************************************)
(* C28.  Every placement of a finished plan lies in the usable band.       *)
(***************************************************************************)
\* packing has just ended with a second page under a title
C28_BeforeRedistribution ==
    /\ pc = "redistribute"
    /\ index = 1
    /\ config.title # ""
    /\ Len(pages) = 2
    /\ pages[2].rows[1].top = page_initial_top

\* page_height - margin - title_block_height
BandTop ==
    RSub(RSub(R(LETTER_PAGE_HEIGHT), margin(config)),
         IF config.title # "" THEN _title_block_height(config) ELSE Zero)

InBand(placement) ==
    /\ RLe(placement.top, BandTop)
    /\ RGe(Bottom(placement), margin(config))

\* C28: in a finished plan, before, during and after redistribution, every
\* placement of every page has top <= page_height - margin - title_block_height
\* and top - scaled_height >= margin; every page has a row, every row holds
\* between 1 and `columns` placements, and the j-th placement of a row (from
\* 0) has column_index j
C28_PlacementsInBand ==
    Finished =>
        \A p \in DOMAIN pages :
            /\ pages[p].rows # <<>>
            /\ \A k \in DOMAIN pages[p].rows :
                  LET placements == pages[p].rows[k].placements
                  IN  /\ Len(placements) \in 1 .. config.columns
                      /\ \A j \in DOMAIN placements :
                            /\ placements[j].column_index = j - 1
                            /\ InBand(placements[j])

\* a written titled worksheet of two pages that hold three rows and one row
C28_Witness ==
    /\ pc = "done"
    /\ config.title # ""
    /\ Len(pages) = 2
    /\ Len(pages[1].rows) = 3
    /\ InBand(pages[2].rows[1].placements[1])
    /\ RLt(pages[1].rows[1].top, PageTop(config))

(***************************************************************************)
(* C29.  The answer key never shares the last content page.                *)
(***************************************************************************)
\* the heading of the answer key is the first thing drawn on a page added
\* after the content pages
HeadingOpensFreshPage(document) ==
    LET k == HeadingIndex(document)
    IN  /\ k > 1
        /\ document[k - 1].op = "add_page"
        /\ Len(AddPageCalls(SubSeq(document, 1, k))) = Len(pages) + 1
        /\ document[k].y = PageTop(config)

\* C29: after redistribution the bottom of the last row of the last content
\* page is on the margin (within 1e-9), the cursor handed to the answer key
\* is that bottom and lies below margin + 2*answer_font_size, and the enabled
\* answer key starts on a fresh page, also when answers_on_new_page is false
C29_AnswerKeyOnFreshPage ==
    /\ Redistributed =>
          /\ Near(ContentCursor, margin(config))
          /\ RLt(ContentCursor, RAdd(margin(config), R(2 * config.answer_font_size)))
    /\ pc = "answers" => current_y = ContentCursor
    /\ (pc \in {"answer_lines", "output", "done"} /\ AnswerKeyEnabled(config, answers)) =>
          HeadingOpensFreshPage(pdf)

\* answers_on_new_page is false and the type is the default 12 points: the
\* key of a worksheet whose last page holds two rows is on a page of its own
C29_Witness ==
    /\ pc = "done"
    /\ AnswerKeyEnabled(config, answers)
    /\ ~config.answers_on_new_page
    /\ config.answer_font_size = 12
    /\ Len(pages[Len(pages)].rows) = 2
    /\ HeadingOpensFreshPage(saved[1])

(***************************************************************************)
(* C30.  Termination of DivisionPlugin.generate_problem.                   *)
(***************************************************************************)
\* the parameters passed validate_bounds
DivisionAccepted == division_pc \in {"sampling", "returned"}

DivisionReturned == division_pc = "returned"

ReturnedDataConsistent ==
    DivisionReturned =>
        /\ division_data.dividend \in
              division_params.min_dividend .. division_params.max_dividend
        /\ division_data.divisor \in
              division_params.min_divisor .. division_params.max_divisor
        /\ division_data.quotient = division_data.dividend \div division_data.divisor
        /\ division_data.remainder = division_data.dividend % division_data.divisor
        /\ ~division_params.allow_remainders => division_data.remainder = 0

\* some dividend of the range is a multiple of some divisor of the range
DivisiblePairExists ==
    \E dv \in division_params.min_dividend .. division_params.max_dividend,
       dr \in division_params.min_divisor .. division_params.max_divisor :
       dr > 0 /\ dv % dr = 0

\* C30: generate_problem terminates for every configuration its validation
\* accepts; without allow_remainders the pair returned has remainder 0, and
\* every returned problem has quotient = dividend // divisor and remainder =
\* dividend % divisor
C30_GenerateProblemTerminates ==
    /\ []ReturnedDataConsistent
    /\ DivisionAccepted ~> DivisionReturned

\* what does hold: the call terminates when remainders are allowed or the
\* ranges hold a divisible pair, and what it returns is consistent
C30_TerminatesWithDivisiblePair ==
    /\ []ReturnedDataConsistent
    /\ (DivisionAccepted /\ (division_params.allow_remainders \/ DivisiblePairExists))
          ~> DivisionReturned

\* the loop has drawn the only pair of an accepted configuration, dividend 1
\* and divisor 2, and turns again
C30_LoopsForever ==
    /\ division_pc = "sampling"
    /\ division_params = _DivisionParams(1, 1, 2, 2, FALSE)
    /\ division_sample = <<1, 2>>

\* a problem with a remainder was returned
C30_ReturnedWithRemainder ==
    /\ DivisionReturned
    /\ division_data.remainder # 0
    /\ division_data.answer = "1 r 1"

====
